---- MODULE Spec2Model ----
(***************************************************************************)
(* Shift Sync AI (ReKylee/ShiftCalendarTool): the wizard that extracts     *)
(* shifts from a schedule image, reconciles them against a calendar and    *)
(* inserts the selected ones.                                              *)
(*                                                                         *)
(* The model follows the selection-based version of the App component      *)
(* (src/unnamed/part_003) and the validating extraction client            *)
(* (src/unnamed/part_001).  src/App.tsx and src/services/geminiService.ts  *)
(* hold earlier versions of the same two files (forceAdd instead of        *)
(* per-shift selection, no validation filter).                             *)
(*                                                                         *)
(* Strings are sequences of one-character strings, so that the regular     *)
(* expressions, the template strings and the Date parsing of the code are  *)
(* computed character by character.                                        *)
(***************************************************************************)
EXTENDS Integers, Sequences, FiniteSets, Bags, TLC

VARIABLES
    appStep,            \* useState<AppStep>          part_003:325
    userName,           \* useState userName          part_003:305
    isSignedIn,         \* useState isSignedIn        part_003:316
    calendars,          \* useState calendars         part_003:319 (set of ids)
    selectedCalendarId, \* useState selectedCalendarId part_003:320
    imageFile,          \* useState imageFile         part_003:308
    extractedShifts,    \* useState extractedShifts   part_003:310
    isLoading,          \* useState isLoading         part_003:311
    error,              \* useState error             part_003:313
    extractPc,          \* position of the running handleExtractShifts
    extractCal,         \* selectedCalendarId captured by its closure
    initialShifts,      \* its local initialShifts while events.list is in flight
    addPc,              \* position of the running handleAddShiftsToCalendar
    requests,           \* the events.insert requests of the latest batch, and
                        \* those of earlier batches that are still in flight
    addCalls,           \* number of times handleAddShiftsToCalendar has run
    calendarStore,      \* events the calendar service has created
    eventsQuery,        \* the events.list request in flight, and
    eventsReply,        \* the answer the calendar service is sending to it
    fnIn,               \* argument of the function under test (function specs);
                        \* in SpecRevoke, the revoke request in flight
    fnOut               \* its result

vars == <<appStep, userName, isSignedIn, calendars, selectedCalendarId, imageFile,
          extractedShifts, isLoading, error, extractPc, extractCal, initialShifts,
          addPc, requests, addCalls, calendarStore, eventsQuery, eventsReply, fnIn, fnOut>>

appVars == <<appStep, userName, isSignedIn, calendars, selectedCalendarId, imageFile,
             extractedShifts, isLoading, error, extractPc, extractCal, initialShifts,
             addPc, requests, addCalls, calendarStore, eventsQuery, eventsReply>>

-----------------------------------------------------------------------------
(* Bounds *)

\* Runs of handleAddShiftsToCalendar in one behaviour (calendarStore only grows).
MaxAddCalls == 1

\* Length of the record list handed to the validation filter in SpecFilter.
MaxRecords == 2

\* Length of the shift list handed to the Calendar Writer in SpecWriter.
MaxWriterShifts == 2

\* Length of the shift list handed to the Conflict Reconciler in SpecReconciler.
MaxCandidates == 2

\* Length of the list the extraction service answers with in SpecOrder.
MaxOutput == 2

\* Runs of handleAddShiftsToCalendar in one behaviour of SpecRetry.
MaxBatches == 2

\* Length of the shift list whose date range is queried in SpecQuery.
MaxDated == 3

-----------------------------------------------------------------------------
(* Values *)

Null == "null"

\* A property that is absent from a parsed JSON object (JavaScript undefined).
Undefined == <<"undefined-value">>

NoCal == "none"
Cals == {"work", "home"}

\* The fixed user-facing messages of the App component.
ErrNoShiftsFound == "No shifts found"
ErrConflictCheck == "Could not check for calendar conflicts"
ErrNothingSelected == "No shifts selected to add."
ErrAddFailed == "Failed to add events"
ErrListCalendars == "Failed to list calendars"
ErrAnalyze == "Failed to analyze the schedule"

-----------------------------------------------------------------------------
(* Strings *)

Digits == <<"0", "1", "2", "3", "4", "5", "6", "7", "8", "9">>

IsDigit(c) == \E i \in 1..10 : Digits[i] = c

DigitVal(c) == (CHOOSE i \in 1..10 : Digits[i] = c) - 1

\* String(v) as RegExp.prototype.test applies it to its argument.
ToStr(v) == IF v = Undefined
            THEN <<"u", "n", "d", "e", "f", "i", "n", "e", "d">>
            ELSE v

\* JavaScript truthiness of a string-or-undefined value.
Truthy(v) == v # Undefined /\ Len(v) > 0

\* /^\d{4}-\d{2}-\d{2}$/.test(v)
IsValidDate(v) ==
    LET s == ToStr(v) IN
    /\ Len(s) = 10
    /\ \A i \in {1, 2, 3, 4, 6, 7, 9, 10} : IsDigit(s[i])
    /\ s[5] = "-"
    /\ s[8] = "-"

\* /^\d{2}:\d{2}$/.test(v)
IsValidTimeStr(v) ==
    LET s == ToStr(v) IN
    /\ Len(s) = 5
    /\ \A i \in {1, 2, 4, 5} : IsDigit(s[i])
    /\ s[3] = ":"

HasRequiredFields(shift) ==
    /\ Truthy(shift.date)
    /\ Truthy(shift.startTime)
    /\ Truthy(shift.endTime)
    /\ Truthy(shift.location)
    /\ Truthy(shift.dayOfWeek)

\* A filter that checks the required fields and the date but not the times.
KeepShiftWithoutTimeCheck(shift) ==
    HasRequiredFields(shift) /\ IsValidDate(shift.date)

\* The callback of shifts.filter(...) in extractShiftsFromImage.
KeepShift(shift) ==
    LET hasRequiredFields == HasRequiredFields(shift)
        isValidDate == IsValidDate(shift.date)
        isValidTime == IsValidTimeStr(shift.startTime) /\ IsValidTimeStr(shift.endTime)
    IN  IF ~hasRequiredFields THEN FALSE
        ELSE IF ~isValidDate THEN FALSE
        ELSE IF ~isValidTime THEN FALSE
        ELSE TRUE

\* A filter that also drops a record equal to one it has already kept.
RECURSIVE ValidateShiftsDeduplicating(_)
ValidateShiftsDeduplicating(shifts) ==
    IF shifts = <<>> THEN <<>>
    ELSE LET front == ValidateShiftsDeduplicating(SubSeq(shifts, 1, Len(shifts) - 1))
             last == shifts[Len(shifts)]
         IN  IF KeepShift(last) /\ \A i \in DOMAIN front : front[i] # last
             THEN Append(front, last)
             ELSE front

\* shifts.filter(...) of extractShiftsFromImage: the kept records, in order.
RECURSIVE ValidateShifts(_)
ValidateShifts(shifts) ==
    IF shifts = <<>> THEN <<>>
    ELSE (IF KeepShift(Head(shifts)) THEN <<Head(shifts)>> ELSE <<>>)
         \o ValidateShifts(Tail(shifts))

-----------------------------------------------------------------------------
(* Dates and times *)

Num2(s, i) == DigitVal(s[i]) * 10 + DigitVal(s[i + 1])

Num4(s, i) == Num2(s, i) * 100 + Num2(s, i + 2)

\* new Date("YYYY-MM-DDTHH:MM...").getTime(), in minutes on a scale that keeps
\* the order of instants (months counted as 31 days).  The strings the model
\* feeds it are well-formed dates and times of day.
DateTimeValue(s) ==
    ((Num4(s, 1) * 12 + (Num2(s, 6) - 1)) * 31 + (Num2(s, 9) - 1)) * 1440
    + Num2(s, 12) * 60 + Num2(s, 15)

\* The template string `${date}T${time}`.
DateT(date, time) == date \o <<"T">> \o time

\* s < t on JavaScript strings (code-unit order); the characters compared by
\* the model are digits and "-", and "-" precedes every digit.
CharCode(c) == IF IsDigit(c) THEN 48 + DigitVal(c) ELSE 45

RECURSIVE StrLt(_, _)
StrLt(s, t) ==
    IF t = <<>> THEN FALSE
    ELSE IF s = <<>> THEN TRUE
    ELSE IF CharCode(Head(s)) # CharCode(Head(t))
         THEN CharCode(Head(s)) < CharCode(Head(t))
    ELSE StrLt(Tail(s), Tail(t))

-----------------------------------------------------------------------------
(* Conflict Reconciler: the pure parts of checkForConflicts *)

\* Overlap of closed intervals: touching boundaries count as overlap.
OverlapsClosed(shiftStart, shiftEnd, eventStart, eventEnd) ==
    shiftStart <= eventEnd /\ shiftEnd >= eventStart

\* shiftStart < eventEnd && shiftEnd > eventStart
Overlaps(shiftStart, shiftEnd, eventStart, eventEnd) ==
    shiftStart < eventEnd /\ shiftEnd > eventStart

\* existingEvents.some(...) for one shift
IsConflictingWith(shift, existingEvents) ==
    LET shiftStart == DateTimeValue(DateT(shift.date, shift.startTime))
        shiftEnd == DateTimeValue(DateT(shift.date, shift.endTime))
    IN  \E k \in DOMAIN existingEvents :
            LET eventStart == DateTimeValue(existingEvents[k].start.dateTime)
                eventEnd == DateTimeValue(existingEvents[k].end.dateTime)
            IN  Overlaps(shiftStart, shiftEnd, eventStart, eventEnd)

\* { ...shift, selected: true }
MarkSelected(shift) ==
    [date |-> shift.date, dayOfWeek |-> shift.dayOfWeek,
     startTime |-> shift.startTime, endTime |-> shift.endTime,
     location |-> shift.location,
     isConflicting |-> "absent", selected |-> TRUE]

\* A marking that deselects the shifts it finds conflicting.
MarkCheckedDeselectingConflicts(shift, existingEvents) ==
    [MarkSelected(shift) EXCEPT
        !.isConflicting = IF IsConflictingWith(shift, existingEvents)
                          THEN "true" ELSE "false",
        !.selected = ~IsConflictingWith(shift, existingEvents)]

\* { ...shift, isConflicting, selected: true }
MarkChecked(shift, existingEvents) ==
    [MarkSelected(shift) EXCEPT
        !.isConflicting = IF IsConflictingWith(shift, existingEvents)
                          THEN "true" ELSE "false"]

\* shifts.map((s) => ({ ...s, selected: true }))
AllSelected(shifts) == [i \in DOMAIN shifts |-> MarkSelected(shifts[i])]

\* A reconciler without the early return, which flags a shift that overlaps
\* every existing event: with no events, every shift.
ReconciledByEvery(shifts, existingEvents) ==
    [i \in DOMAIN shifts |->
        [MarkSelected(shifts[i]) EXCEPT
            !.isConflicting =
                IF \A k \in DOMAIN existingEvents :
                       IsConflictingWith(shifts[i], <<existingEvents[k]>>)
                THEN "true" ELSE "false"]]

\* The value checkForConflicts returns once events.list has answered with items.
Reconciled(shifts, existingEvents) ==
    IF Len(existingEvents) = 0
    THEN AllSelected(shifts)
    ELSE [i \in DOMAIN shifts |-> MarkChecked(shifts[i], existingEvents)]

\* shifts.reduce((min, s) => (s.date < min ? s.date : min), shifts[0].date)
RECURSIVE ReduceMin(_, _)
ReduceMin(shifts, min) ==
    IF shifts = <<>> THEN min
    ELSE ReduceMin(Tail(shifts),
                   IF StrLt(Head(shifts).date, min) THEN Head(shifts).date ELSE min)

\* shifts.reduce((max, s) => (s.date > max ? s.date : max), shifts[0].date)
RECURSIVE ReduceMax(_, _)
ReduceMax(shifts, max) ==
    IF shifts = <<>> THEN max
    ELSE ReduceMax(Tail(shifts),
                   IF StrLt(max, Head(shifts).date) THEN Head(shifts).date ELSE max)

\* A lower bound taken from the first shift alone.
MinDateOfFirst(shifts) == shifts[1].date

MinDate(shifts) == ReduceMin(shifts, shifts[1].date)

MaxDate(shifts) == ReduceMax(shifts, shifts[1].date)

-----------------------------------------------------------------------------
(* Selection State and Calendar Writer: the pure parts *)

\* Every shift of the list, selected or not.
AllIndices(shifts) == [i \in DOMAIN shifts |-> i]

\* extractedShifts.filter((s) => s.selected), as the indices kept, in order.
RECURSIVE SelectedFrom(_, _)
SelectedFrom(shifts, i) ==
    IF i > Len(shifts) THEN <<>>
    ELSE (IF shifts[i].selected THEN <<i>> ELSE <<>>) \o SelectedFrom(shifts, i + 1)

SelectedIndices(shifts) == SelectedFrom(shifts, 1)

\* The enablement of the forceAdd version of the component: the button is
\* disabled while every shift conflicts.
AddDisabledByConflicts ==
    \A i \in DOMAIN extractedShifts : extractedShifts[i].isConflicting = "true"

\* disabled={extractedShifts.filter((s) => s.selected).length === 0}
AddDisabled == Len(SelectedIndices(extractedShifts)) = 0

\* An event resource whose instants carry hours and minutes only.
EventOfWithoutSeconds(shift) ==
    [summary |-> <<"Work Shift: ">> \o shift.location,
     location |-> shift.location,
     description |-> <<"Shift at ">> \o shift.location,
     start |-> [dateTime |-> DateT(shift.date, shift.startTime), timeZone |-> "runtime"],
     end |-> [dateTime |-> DateT(shift.date, shift.endTime), timeZone |-> "runtime"]]

\* The event resource built for one shift (the time zone is that of the runtime).
EventOf(shift) ==
    [summary |-> <<"Work Shift: ">> \o shift.location,
     location |-> shift.location,
     description |-> <<"Shift at ">> \o shift.location,
     start |-> [dateTime |-> DateT(shift.date, shift.startTime) \o <<":", "0", "0">>,
                timeZone |-> "runtime"],
     end |-> [dateTime |-> DateT(shift.date, shift.endTime) \o <<":", "0", "0">>,
              timeZone |-> "runtime"]]

\* A toggle that flips the flag of every record.
ToggledAll(shifts, index) ==
    [i \in DOMAIN shifts |-> [shifts[i] EXCEPT !.selected = ~shifts[i].selected]]

\* newShifts[index].selected = !newShifts[index].selected
Toggled(shifts, index) ==
    [shifts EXCEPT ![index].selected = ~shifts[index].selected]

\* Promise.allSettled: fulfilled once every promise has settled, never rejected.
PromiseAllSettled(statuses) ==
    IF \A k \in DOMAIN statuses : statuses[k] # "pending" THEN "fulfilled"
    ELSE "pending"

\* Promise.any: fulfilled as soon as one promise is, rejected once all are.
PromiseAny(statuses) ==
    IF \E k \in DOMAIN statuses : statuses[k] = "ok" THEN "fulfilled"
    ELSE IF \A k \in DOMAIN statuses : statuses[k] = "failed" THEN "rejected"
    ELSE "pending"

\* The state of the promise Promise.all(promises) returns, from the states of
\* the promises it joins: it rejects as soon as one of them rejects and is
\* fulfilled once all of them are.
PromiseAll(statuses) ==
    IF \E k \in DOMAIN statuses : statuses[k] = "failed" THEN "rejected"
    ELSE IF \A k \in DOMAIN statuses : statuses[k] = "ok" THEN "fulfilled"
    ELSE "pending"

-----------------------------------------------------------------------------
(* The inputs of the environment *)

D17 == <<"2", "0", "2", "5", "-", "0", "8", "-", "1", "7">>
D18 == <<"2", "0", "2", "5", "-", "0", "8", "-", "1", "8">>
DBad == <<"1", "8", ".", "0", "8", ".", "2", "5">>

T0900 == <<"0", "9", ":", "0", "0">>
T1530 == <<"1", "5", ":", "3", "0">>
T1700 == <<"1", "7", ":", "0", "0">>
T2200 == <<"2", "2", ":", "0", "0">>
T2300 == <<"2", "3", ":", "0", "0">>
TBad == <<"9", ":", "0", "0">>

Asics == <<"ASICS">>
Originals == <<"ORIGINALS">>
Monday == <<"Mon">>

Raw(date, dayOfWeek, startTime, endTime, location) ==
    [date |-> date, dayOfWeek |-> dayOfWeek, startTime |-> startTime,
     endTime |-> endTime, location |-> location]

Morning == Raw(D18, Monday, T0900, T1530, Asics)
Evening == Raw(D18, Monday, T1530, T2200, Originals)
BadDate == Raw(DBad, Monday, T0900, T1530, Asics)
NoLocation == Raw(D18, Monday, T0900, T1530, Undefined)

\* What generateContent can answer: a failure, an empty text, or a JSON object
\* { shifts: [...] } whose records the schema does not force to be valid.
ExtractionResponses ==
    { [kind |-> "error", shifts |-> <<>>],
      [kind |-> "emptyText", shifts |-> <<>>],
      [kind |-> "json", shifts |-> <<BadDate, NoLocation>>],
      [kind |-> "json", shifts |-> <<BadDate, Evening, Morning>>] }

Event(start, end) == [start |-> [dateTime |-> start], end |-> [dateTime |-> end]]

\* What events.list can answer: a failure, or the items in the queried range.
EventsResponses ==
    { [ok |-> FALSE, items |-> <<>>],
      [ok |-> TRUE, items |-> <<>>],
      [ok |-> TRUE, items |-> <<Event(DateT(D17, T1700), DateT(D17, T2200)),
                                Event(DateT(D18, T2200), DateT(D18, T2300)),
                                Event(DateT(D18, T0900), DateT(D18, T1530))>>] }

\* No events.list request is in flight.
NoQuery == [calendarId |-> NoCal, timeMin |-> <<>>, timeMax |-> <<>>]

NoReply == [ok |-> TRUE, items |-> <<>>]

NoFn == [op |-> "none"]

-----------------------------------------------------------------------------
(* Initial state: the useState initialisers, with localStorage either empty *)
(* or holding the preferences of an earlier session                          *)

InitView ==
    /\ appStep = "CONFIG"
    /\ imageFile = FALSE
    /\ extractedShifts = <<>>
    /\ isLoading = FALSE
    /\ error = Null
    /\ calendars = {}
    /\ extractPc = "idle"
    /\ extractCal = NoCal
    /\ initialShifts = <<>>
    /\ addPc = "idle"
    /\ requests = <<>>
    /\ addCalls = 0
    /\ calendarStore = EmptyBag
    /\ eventsQuery = NoQuery
    /\ eventsReply = NoReply

Init ==
    /\ InitView
    /\ \/ userName = "" /\ isSignedIn = FALSE /\ selectedCalendarId = NoCal
       \/ userName = "Alex" /\ isSignedIn = TRUE /\ selectedCalendarId = "work"
    /\ fnIn = NoFn
    /\ fnOut = NoFn

-----------------------------------------------------------------------------
(* CONFIG step *)

isConfigComplete == userName # "" /\ isSignedIn /\ selectedCalendarId # NoCal

SetUserName(name) ==
    /\ appStep = "CONFIG"
    /\ userName' = name
    /\ UNCHANGED <<appStep, isSignedIn, calendars, selectedCalendarId, imageFile,
                   extractedShifts, isLoading, error, extractPc, extractCal,
                   initialShifts, addPc, requests, addCalls, calendarStore, eventsQuery, eventsReply,
                   fnIn, fnOut>>

\* handleSignIn followed by the token client's callback with an access token.
SignIn ==
    /\ appStep = "CONFIG"
    /\ ~isSignedIn
    /\ isSignedIn' = TRUE
    /\ error' = Null
    /\ UNCHANGED <<appStep, userName, calendars, selectedCalendarId, imageFile,
                   extractedShifts, isLoading, extractPc, extractCal, initialShifts,
                   addPc, requests, addCalls, calendarStore, eventsQuery, eventsReply, fnIn, fnOut>>

\* listCalendars: the calendar list answers; the default selection prefers the
\* calendar whose summary contains "work".
ListCalendars(ok) ==
    /\ isSignedIn
    /\ calendars = {}
    /\ IF ok
       THEN /\ calendars' = Cals
            /\ selectedCalendarId' =
                   IF selectedCalendarId = NoCal THEN "work" ELSE selectedCalendarId
            /\ error' = error
       ELSE /\ error' = ErrListCalendars
            /\ UNCHANGED <<calendars, selectedCalendarId>>
    /\ UNCHANGED <<appStep, userName, isSignedIn, imageFile, extractedShifts, isLoading,
                   extractPc, extractCal, initialShifts, addPc, requests, addCalls,
                   calendarStore, eventsQuery, eventsReply, fnIn, fnOut>>

SelectCalendar(id) ==
    /\ appStep = "CONFIG"
    /\ isSignedIn
    /\ id \in calendars
    /\ selectedCalendarId' = id
    /\ UNCHANGED <<appStep, userName, isSignedIn, calendars, imageFile, extractedShifts,
                   isLoading, error, extractPc, extractCal, initialShifts, addPc,
                   requests, addCalls, calendarStore, eventsQuery, eventsReply, fnIn, fnOut>>

handleSignOut ==
    /\ appStep = "CONFIG"
    /\ isSignedIn
    /\ isSignedIn' = FALSE
    /\ appStep' = "CONFIG"
    /\ selectedCalendarId' = NoCal
    /\ calendars' = {}
    /\ UNCHANGED <<userName, imageFile, extractedShifts, isLoading, error, extractPc,
                   extractCal, initialShifts, addPc, requests, addCalls, calendarStore,
                   eventsQuery, eventsReply, fnIn, fnOut>>

Continue ==
    /\ appStep = "CONFIG"
    /\ isConfigComplete
    /\ appStep' = "UPLOAD"
    /\ UNCHANGED <<userName, isSignedIn, calendars, selectedCalendarId, imageFile,
                   extractedShifts, isLoading, error, extractPc, extractCal,
                   initialShifts, addPc, requests, addCalls, calendarStore, eventsQuery, eventsReply,
                   fnIn, fnOut>>

-----------------------------------------------------------------------------
(* UPLOAD step and handleExtractShifts *)

handleFileSelected ==
    /\ appStep = "UPLOAD"
    /\ ~isLoading
    /\ imageFile' = TRUE
    /\ error' = Null
    /\ UNCHANGED <<appStep, userName, isSignedIn, calendars, selectedCalendarId,
                   extractedShifts, isLoading, extractPc, extractCal, initialShifts,
                   addPc, requests, addCalls, calendarStore, eventsQuery, eventsReply, fnIn, fnOut>>

handleBackToConfig ==
    /\ appStep = "UPLOAD"
    /\ appStep' = "CONFIG"
    /\ UNCHANGED <<userName, isSignedIn, calendars, selectedCalendarId, imageFile,
                   extractedShifts, isLoading, error, extractPc, extractCal,
                   initialShifts, addPc, requests, addCalls, calendarStore, eventsQuery, eventsReply,
                   fnIn, fnOut>>

\* An Extract button that shows the REVIEW card at once, without awaiting.
ExtractClickOptimistic ==
    /\ appStep = "UPLOAD"
    /\ imageFile
    /\ ~isLoading
    /\ extractPc = "idle"
    /\ userName # ""
    /\ isLoading' = TRUE
    /\ error' = Null
    /\ extractPc' = "extracting"
    /\ extractCal' = selectedCalendarId
    /\ appStep' = "REVIEW"
    /\ UNCHANGED <<userName, isSignedIn, calendars, selectedCalendarId,
                   imageFile, extractedShifts, initialShifts, addPc, requests,
                   addCalls, calendarStore, eventsQuery, eventsReply, fnIn, fnOut>>

\* The Extract button: handleExtractShifts up to its first await.  The closure
\* of this render keeps the selectedCalendarId checkForConflicts will use.
ExtractClick ==
    /\ appStep = "UPLOAD"
    /\ imageFile
    /\ ~isLoading
    /\ extractPc = "idle"
    /\ userName # ""
    /\ isLoading' = TRUE
    /\ error' = Null
    /\ extractPc' = "extracting"
    /\ extractCal' = selectedCalendarId
    /\ UNCHANGED <<appStep, userName, isSignedIn, calendars, selectedCalendarId,
                   imageFile, extractedShifts, initialShifts, addPc, requests,
                   addCalls, calendarStore, eventsQuery, eventsReply, fnIn, fnOut>>

\* What extractShiftsFromImage resolves to for a response that is not a failure.
ExtractedFrom(response) ==
    IF response.kind = "emptyText" THEN <<>> ELSE ValidateShifts(response.shifts)

\* A catch block that returns the candidates deselected.
OnQueryFailureDeselects(shifts) ==
    [i \in DOMAIN shifts |-> [MarkSelected(shifts[i]) EXCEPT !.selected = FALSE]]

\* The value checkForConflicts returns from its catch block.
OnQueryFailure(shifts) == AllSelected(shifts)

\* The events.list request checkForConflicts sends for `shifts`.
QueryFor(shifts, calendarId) ==
    [calendarId |-> calendarId,
     timeMin |-> MinDate(shifts) \o <<"T", "0", "0", ":", "0", "0", ":", "0", "0", "Z">>,
     timeMax |-> MaxDate(shifts) \o <<"T", "2", "3", ":", "5", "9", ":", "5", "9", "Z">>]

\* A handler that adds the new shifts to the stored list.
ShowReviewAppending(shifts) ==
    /\ extractedShifts' = extractedShifts \o shifts
    /\ appStep' = "REVIEW"
    /\ isLoading' = FALSE
    /\ extractPc' = "idle"
    /\ initialShifts' = <<>>
    /\ eventsQuery' = NoQuery
    /\ eventsReply' = NoReply

\* The rest of handleExtractShifts once checkForConflicts has returned.
ShowReview(shifts) ==
    /\ extractedShifts' = shifts
    /\ appStep' = "REVIEW"
    /\ isLoading' = FALSE
    /\ extractPc' = "idle"
    /\ initialShifts' = <<>>
    /\ eventsQuery' = NoQuery
    /\ eventsReply' = NoReply

\* generateContent settles: extractShiftsFromImage returns or throws, and
\* handleExtractShifts runs on to its next await or to its end.  `reply` is the
\* answer the calendar service gives if events.list is called.
ExtractResponds(response, reply) ==
    /\ extractPc = "extracting"
    /\ IF response.kind = "error"
       THEN /\ error' = ErrAnalyze
            /\ isLoading' = FALSE
            /\ extractPc' = "idle"
            /\ UNCHANGED <<appStep, extractedShifts, initialShifts, eventsQuery, eventsReply>>
       ELSE LET shifts == ExtractedFrom(response) IN
            IF Len(shifts) = 0
            THEN /\ error' = ErrNoShiftsFound
                 /\ appStep' = "UPLOAD"
                 /\ isLoading' = FALSE
                 /\ extractPc' = "idle"
                 /\ UNCHANGED <<extractedShifts, initialShifts, eventsQuery, eventsReply>>
            ELSE IF extractCal = NoCal
            THEN /\ ShowReview(AllSelected(shifts))
                 /\ error' = error
            ELSE /\ extractPc' = "checking"
                 /\ initialShifts' = shifts
                 /\ eventsQuery' = QueryFor(shifts, extractCal)
                 /\ eventsReply' = reply
                 /\ UNCHANGED <<appStep, extractedShifts, isLoading, error>>
    /\ UNCHANGED <<userName, isSignedIn, calendars, selectedCalendarId, imageFile,
                   extractCal, addPc, requests, addCalls, calendarStore, fnIn, fnOut>>

\* events.list settles: checkForConflicts returns and handleExtractShifts ends.
EventsListResponds ==
    /\ extractPc = "checking"
    /\ IF eventsReply.ok
       THEN /\ ShowReview(Reconciled(initialShifts, eventsReply.items))
            /\ error' = error
       ELSE /\ ShowReview(OnQueryFailure(initialShifts))
            /\ error' = ErrConflictCheck
    /\ UNCHANGED <<userName, isSignedIn, calendars, selectedCalendarId, imageFile,
                   extractCal, addPc, requests, addCalls, calendarStore, fnIn, fnOut>>

-----------------------------------------------------------------------------
(* REVIEW step *)

handleToggleShift(index) ==
    /\ appStep = "REVIEW"
    /\ index \in DOMAIN extractedShifts
    /\ extractedShifts' = Toggled(extractedShifts, index)
    /\ UNCHANGED <<appStep, userName, isSignedIn, calendars, selectedCalendarId,
                   imageFile, isLoading, error, extractPc, extractCal, initialShifts,
                   addPc, requests, addCalls, calendarStore, eventsQuery, eventsReply, fnIn, fnOut>>

handleBackToUpload ==
    /\ appStep = "REVIEW"
    /\ appStep' = "UPLOAD"
    /\ UNCHANGED <<userName, isSignedIn, calendars, selectedCalendarId, imageFile,
                   extractedShifts, isLoading, error, extractPc, extractCal,
                   initialShifts, addPc, requests, addCalls, calendarStore, eventsQuery, eventsReply,
                   fnIn, fnOut>>

InFlight(request) == request.status = "pending"

\* A writer that issues no request for a shift whose event the calendar
\* already holds.
InsertRequestsNotYetStored(shifts, shiftsToAdd, calendarId, batch) ==
    LET todo == SelectSeq(shiftsToAdd,
                          LAMBDA i : ~BagIn([calendarId |-> calendarId,
                                             resource |-> EventOf(shifts[i])],
                                            calendarStore))
    IN  [k \in DOMAIN todo |->
            [batch |-> batch, index |-> todo[k], calendarId |-> calendarId,
             resource |-> EventOf(shifts[todo[k]]), status |-> "pending"]]

\* The requests shiftsToAdd.map(...) issues, one per element of shiftsToAdd.
InsertRequests(shifts, shiftsToAdd, calendarId, batch) ==
    [k \in DOMAIN shiftsToAdd |->
        [batch |-> batch, index |-> shiftsToAdd[k], calendarId |-> calendarId,
         resource |-> EventOf(shifts[shiftsToAdd[k]]), status |-> "pending"]]

\* The head of the handler without the check of the selected sublist.
AddDecisionUnchecked(shifts, calendarId) ==
    IF calendarId = NoCal \/ Len(shifts) = 0 THEN "return" ELSE "issue"

\* The two guards at the head of handleAddShiftsToCalendar.
AddDecision(shifts, calendarId) ==
    IF calendarId = NoCal \/ Len(shifts) = 0 THEN "return"
    ELSE IF Len(SelectedIndices(shifts)) = 0 THEN "nothingSelected"
    ELSE "issue"

\* handleAddShiftsToCalendar up to its await, run at most `limit` times.
AddShiftsToCalendar(limit) ==
    /\ addPc = "idle"
    /\ addCalls < limit
    /\ addCalls' = addCalls + 1
    /\ LET decision == AddDecision(extractedShifts, selectedCalendarId)
           shiftsToAdd == SelectedIndices(extractedShifts)
       IN  IF decision = "return"
            THEN UNCHANGED <<appStep, error, addPc, requests>>
            ELSE IF decision = "nothingSelected"
            THEN /\ error' = ErrNothingSelected
                 /\ appStep' = "REVIEW"
                 /\ UNCHANGED <<addPc, requests>>
            ELSE /\ appStep' = "ADDING"
                 /\ error' = Null
                 /\ requests' = SelectSeq(requests, InFlight)
                                 \o InsertRequests(extractedShifts, shiftsToAdd,
                                                   selectedCalendarId, addCalls + 1)
                 /\ addPc' = "awaiting"
    /\ UNCHANGED <<userName, isSignedIn, calendars, selectedCalendarId, imageFile,
                   extractedShifts, isLoading, extractPc, extractCal, initialShifts,
                   calendarStore, eventsQuery, eventsReply, fnIn, fnOut>>

handleAddShiftsToCalendar == AddShiftsToCalendar(MaxAddCalls)

\* The Add to Calendar button of the REVIEW card.
AddClick ==
    /\ appStep = "REVIEW"
    /\ ~AddDisabled
    /\ handleAddShiftsToCalendar

-----------------------------------------------------------------------------
(* The insert requests settle *)

BatchOf(reqs, batch) == {k \in DOMAIN reqs : reqs[k].batch = batch}

\* The statuses of the promises handed to Promise.all by run `batch`.
BatchStatuses(reqs, batch) == [k \in BatchOf(reqs, batch) |-> reqs[k].status]

\* The continuation of handleAddShiftsToCalendar after await Promise.all: it
\* runs in the same turn in which the promise settles.
AfterJoin(reqs) ==
    LET joined == PromiseAll(BatchStatuses(reqs, addCalls)) IN
    IF addPc # "awaiting" \/ joined = "pending"
    THEN UNCHANGED <<appStep, error, addPc>>
    ELSE IF joined = "fulfilled"
    THEN /\ appStep' = "DONE"
         /\ addPc' = "idle"
         /\ error' = error
    ELSE /\ error' = ErrAddFailed
         /\ appStep' = "REVIEW"
         /\ addPc' = "idle"

\* The event the calendar service stores for a request it accepts.
Created(request) == [calendarId |-> request.calendarId, resource |-> request.resource]

InsertSucceeds(k) ==
    /\ k \in DOMAIN requests
    /\ requests[k].status = "pending"
    /\ requests' = [requests EXCEPT ![k].status = "ok"]
    /\ calendarStore' = calendarStore (+) SetToBag({Created(requests[k])})
    /\ AfterJoin(requests')
    /\ UNCHANGED <<userName, isSignedIn, calendars, selectedCalendarId, imageFile,
                   extractedShifts, isLoading, extractPc, extractCal, initialShifts,
                   addCalls, eventsQuery, eventsReply, fnIn, fnOut>>

\* A failing insert that is sent again at once.
InsertFailsRetrying(k) ==
    /\ k \in DOMAIN requests
    /\ requests[k].status = "pending"
    /\ requests' = Append([requests EXCEPT ![k].status = "failed"], requests[k])
    /\ calendarStore' = calendarStore
    /\ AfterJoin(requests')
    /\ UNCHANGED <<userName, isSignedIn, calendars, selectedCalendarId, imageFile,
                   extractedShifts, isLoading, extractPc, extractCal, initialShifts,
                   addCalls, eventsQuery, eventsReply, fnIn, fnOut>>

\* A failing insert that deletes the events the accepted requests of its batch
\* have created.
InsertFailsRollingBack(k) ==
    /\ k \in DOMAIN requests
    /\ requests[k].status = "pending"
    /\ requests' = [requests EXCEPT ![k].status = "failed"]
    /\ calendarStore' =
           calendarStore (-) SetToBag({Created(requests[j]) :
               j \in {i \in DOMAIN requests : /\ requests[i].batch = requests[k].batch
                                               /\ requests[i].status = "ok"}})
    /\ AfterJoin(requests')
    /\ UNCHANGED <<userName, isSignedIn, calendars, selectedCalendarId, imageFile,
                   extractedShifts, isLoading, extractPc, extractCal, initialShifts,
                   addCalls, eventsQuery, eventsReply, fnIn, fnOut>>

InsertFails(k) ==
    /\ k \in DOMAIN requests
    /\ requests[k].status = "pending"
    /\ requests' = [requests EXCEPT ![k].status = "failed"]
    /\ calendarStore' = calendarStore
    /\ AfterJoin(requests')
    /\ UNCHANGED <<userName, isSignedIn, calendars, selectedCalendarId, imageFile,
                   extractedShifts, isLoading, extractPc, extractCal, initialShifts,
                   addCalls, eventsQuery, eventsReply, fnIn, fnOut>>

-----------------------------------------------------------------------------
(* DONE step *)

\* A start-over that also withdraws the insert requests still in flight.
handleStartOverCancelling ==
    /\ appStep = "DONE"
    /\ imageFile' = FALSE
    /\ extractedShifts' = <<>>
    /\ error' = Null
    /\ isLoading' = FALSE
    /\ appStep' = "CONFIG"
    /\ requests' = SelectSeq(requests, LAMBDA r : ~InFlight(r))
    /\ UNCHANGED <<userName, isSignedIn, calendars, selectedCalendarId, extractPc,
                   extractCal, initialShifts, addPc, addCalls, calendarStore,
                   eventsQuery, eventsReply, fnIn, fnOut>>

handleStartOver ==
    /\ appStep = "DONE"
    /\ imageFile' = FALSE
    /\ extractedShifts' = <<>>
    /\ error' = Null
    /\ isLoading' = FALSE
    /\ appStep' = "CONFIG"
    /\ UNCHANGED <<userName, isSignedIn, calendars, selectedCalendarId, extractPc,
                   extractCal, initialShifts, addPc, requests, addCalls, calendarStore,
                   eventsQuery, eventsReply, fnIn, fnOut>>

-----------------------------------------------------------------------------
(* The application *)

Next ==
    \/ \E name \in {"Alex"} : SetUserName(name)
    \/ SignIn
    \/ \E ok \in BOOLEAN : ListCalendars(ok)
    \/ \E id \in Cals : SelectCalendar(id)
    \/ handleSignOut
    \/ Continue
    \/ handleFileSelected
    \/ handleBackToConfig
    \/ ExtractClick
    \/ \E response \in ExtractionResponses, reply \in EventsResponses :
           ExtractResponds(response, reply)
    \/ EventsListResponds
    \/ \E index \in DOMAIN extractedShifts : handleToggleShift(index)
    \/ handleBackToUpload
    \/ AddClick
    \/ \E k \in DOMAIN requests : InsertSucceeds(k)
    \/ \E k \in DOMAIN requests : InsertFails(k)
    \/ handleStartOver

Spec == Init /\ [][Next]_vars

-----------------------------------------------------------------------------
(* The validation filter of extractShiftsFromImage on its own: every list of *)
(* up to MaxRecords parsed records over the field values below               *)

DateValues == {Undefined, <<>>, DBad, D18, D18 \o <<"T">>}
StartValues == {Undefined, TBad, T0900}
EndValues == {<<>>, <<"1", "6">>, T1530, T1530 \o <<":", "0", "0">>}
LocationValues == {Undefined, Asics}
DayValues == {<<>>, Monday}

ParsedRecords ==
    {Raw(d, w, a, b, l) : d \in DateValues, w \in DayValues, a \in StartValues,
                          b \in EndValues, l \in LocationValues}

\* The records that differ from a valid record in at most one field.
NearValidRecords ==
    {r \in ParsedRecords :
        Cardinality({f \in {"date", "dayOfWeek", "startTime", "endTime", "location"} :
                        r[f] # Morning[f]}) <= 1}

\* Every single record, and every list of up to MaxRecords near-valid records.
ParsedLists ==
    {<<r>> : r \in ParsedRecords}
        \cup UNION {[1..n -> NearValidRecords] : n \in 0..MaxRecords}

InitFilter ==
    /\ InitView
    /\ userName = "Alex" /\ isSignedIn = TRUE /\ selectedCalendarId = "work"
    /\ fnIn \in {[op |-> "filter", arg |-> shifts] : shifts \in ParsedLists}
    /\ fnOut = NoFn

\* return shifts.filter(...)
ApplyFilter ==
    /\ fnIn.op = "filter"
    /\ fnOut.op = "none"
    /\ fnOut' = [op |-> "filter", value |-> ValidateShifts(fnIn.arg)]
    /\ UNCHANGED <<appVars, fnIn>>

NextFilter == ApplyFilter

SpecFilter == InitFilter /\ [][NextFilter]_vars

-----------------------------------------------------------------------------
(* The Calendar Writer on its own: handleAddShiftsToCalendar run on every    *)
(* shift list of up to MaxWriterShifts reconciled shifts and every calendar  *)
(* selection, whether or not the Add button of that state is enabled         *)

WriterShifts ==
    {[MarkSelected(r) EXCEPT !.selected = b] : r \in {Morning, Evening}, b \in BOOLEAN}

WriterLists == UNION {[1..n -> WriterShifts] : n \in 0..MaxWriterShifts}

InitWriter ==
    /\ appStep = "REVIEW"
    /\ extractedShifts \in WriterLists
    /\ selectedCalendarId \in Cals \cup {NoCal}
    /\ userName = "Alex"
    /\ isSignedIn = TRUE
    /\ imageFile = TRUE
    /\ isLoading = FALSE
    /\ error = Null
    /\ calendars = Cals
    /\ extractPc = "idle"
    /\ extractCal = NoCal
    /\ initialShifts = <<>>
    /\ addPc = "idle"
    /\ requests = <<>>
    /\ addCalls = 0
    /\ calendarStore = EmptyBag
    /\ eventsQuery = NoQuery
    /\ eventsReply = NoReply
    /\ fnIn = NoFn
    /\ fnOut = NoFn

NextWriter ==
    \/ handleAddShiftsToCalendar
    \/ \E k \in DOMAIN requests : InsertSucceeds(k)
    \/ \E k \in DOMAIN requests : InsertFails(k)

SpecWriter == InitWriter /\ [][NextWriter]_vars

-----------------------------------------------------------------------------
(* Shift Extraction Client: extractShiftsFromImage step by step.  Messages   *)
(* are sequences of words, and message.includes(word) looks the word up in   *)
(* the sequence.  A response text is a sequence of JSON tokens.              *)

Includes(message, word) == \E i \in DOMAIN message : message[i] = word

\* The fixed messages of extractShiftsFromImage and of handleExtractShifts.
MsgNotConfigured == <<"Application is not configured correctly. The API_KEY is missing.">>
MsgInvalidApiKey == <<"Invalid API key. Please check your Google AI API key configuration.">>
MsgQuotaExceeded == <<"API quota exceeded. Please try again later or check your API usage limits.">>
MsgBlocked == <<"Content was blocked by safety filters. Please try with a different image.">>
MsgInvalidJson == <<"AI response was not in valid JSON format. Please try again.">>
MsgAnalyzeFailed == <<ErrAnalyze>>
MsgUnknownAnalysis == <<"An unknown error occurred during analysis.">>

\* A thrown value: whether it is an instance of Error, and its message.
Thrown(isError, message) == [isError |-> isError, message |-> message]

NoError == Thrown(FALSE, Undefined)

\* A catch block that rethrows what it caught.
RethrowError(caught) == caught

\* The catch block of extractShiftsFromImage: the error it throws for `caught`.
ClassifyError(caught) ==
    LET m == caught.message IN
    IF caught.isError /\ (Includes(m, "API key") \/ Includes(m, "authentication"))
    THEN Thrown(TRUE, MsgInvalidApiKey)
    ELSE IF caught.isError /\ (Includes(m, "quota") \/ Includes(m, "limit"))
    THEN Thrown(TRUE, MsgQuotaExceeded)
    ELSE IF caught.isError /\ (Includes(m, "blocked") \/ Includes(m, "safety"))
    THEN Thrown(TRUE, MsgBlocked)
    ELSE IF caught.isError /\ Includes(m, "JSON")
    THEN Thrown(TRUE, MsgInvalidJson)
    ELSE Thrown(TRUE, MsgAnalyzeFailed)

NoRec == Raw(<<>>, <<>>, <<>>, <<>>, <<>>)

\* JSON tokens: punctuation and keys, and whole shift objects.
Tok(s) == [tok |-> s, rec |-> NoRec]

RecTok(r) == [tok |-> "record", rec |-> r]

\* The text of a JSON array of shift objects, and of { "shifts": [...] }.
JsonArrayText(items) ==
    <<Tok("[")>> \o [i \in DOMAIN items |-> RecTok(items[i])] \o <<Tok("]")>>

JsonObjectText(items) ==
    <<Tok("{"), Tok("shifts"), Tok(":")>> \o JsonArrayText(items) \o <<Tok("}")>>

IsArrayText(t) ==
    /\ Len(t) >= 2
    /\ t[1].tok = "["
    /\ t[Len(t)].tok = "]"
    /\ \A i \in 2..(Len(t) - 1) : t[i].tok = "record"

ArrayItems(t) == [i \in 1..(Len(t) - 2) |-> t[i + 1].rec]

Parsed(ok, type, hasShifts, shifts) ==
    [ok |-> ok, type |-> type, hasShifts |-> hasShifts, shifts |-> shifts]

\* JSON.parse(responseText): the value, or ok = FALSE where it throws.
JsonParse(t) ==
    IF IsArrayText(t)
    THEN Parsed(TRUE, "array", FALSE, ArrayItems(t))
    ELSE IF /\ Len(t) >= 6
            /\ t[1].tok = "{" /\ t[2].tok = "shifts" /\ t[3].tok = ":"
            /\ t[Len(t)].tok = "}"
            /\ IsArrayText(SubSeq(t, 4, Len(t) - 1))
    THEN Parsed(TRUE, "object", TRUE, ArrayItems(SubSeq(t, 4, Len(t) - 1)))
    ELSE IF Len(t) = 2 /\ t[1].tok = "{" /\ t[2].tok = "}"
    THEN Parsed(TRUE, "object", FALSE, <<>>)
    ELSE IF Len(t) = 1 /\ t[1].tok = "null"
    THEN Parsed(TRUE, "null", FALSE, <<>>)
    ELSE Parsed(FALSE, "none", FALSE, <<>>)

\* The message of the SyntaxError JSON.parse throws.  It is implementation
\* defined: some engines quote the offending text, others do not.
Engines == {"quoting", "plain"}

SyntaxErrorMessage(t, engine) ==
    IF engine = "quoting"
    THEN <<"Unexpected", "token">> \o [i \in DOMAIN t |-> t[i].tok]
             \o <<"is", "not", "valid", "JSON">>
    ELSE <<"JSON.parse:", "unexpected", "character", "of", "the", "JSON", "data">>

\* What extractShiftsFromImage settles with.
Returned(shifts) == [kind |-> "return", value |-> shifts, error |-> NoError]

Threw(caught) == [kind |-> "throw", value |-> <<>>, error |-> caught]

\* parsedResponse.shifts || []
ShiftsOf(parsed) == IF parsed.hasShifts THEN parsed.shifts ELSE <<>>

\* A body that trims the text before testing it, as the earlier client did:
\* an absent text makes it throw.
TextOutcomeTrimming(text, engine) ==
    IF ~text.present
    THEN Threw(ClassifyError(Thrown(TRUE, <<"Cannot", "read", "properties", "of",
                                           "undefined">>)))
    ELSE IF Len(text.tokens) = 0 THEN Returned(<<>>)
    ELSE Returned(ValidateShifts(ShiftsOf(JsonParse(text.tokens))))

\* The try block of extractShiftsFromImage from `const responseText` on, and
\* its catch block.
TextOutcome(text, engine) ==
    IF ~text.present \/ Len(text.tokens) = 0 THEN Returned(<<>>)
    ELSE LET parsed == JsonParse(text.tokens) IN
         IF ~parsed.ok
         THEN Threw(ClassifyError(Thrown(TRUE, SyntaxErrorMessage(text.tokens, engine))))
         ELSE IF parsed.type = "null"
         THEN Threw(ClassifyError(Thrown(TRUE, <<"Cannot", "read", "properties", "of",
                                                "null">>)))
         ELSE Returned(ValidateShifts(ShiftsOf(parsed)))

\* The credentials a build can hand to the client: none, an empty one, the
\* placeholder of a build whose key was not injected, and a key.
PlaceholderKey == <<"%", "%", "A", "P", "I", "_", "K", "E", "Y", "%", "%">>
RealKey == <<"A", "I", "z", "a", "S", "y">>
ApiKeys == {Undefined, <<>>, PlaceholderKey, RealKey}

Rejects(caught) == [kind |-> "reject", error |-> caught, present |-> FALSE, tokens |-> <<>>]

Text(present, tokens) ==
    [kind |-> "text", error |-> NoError, present |-> present, tokens |-> tokens]

\* What generateContent can settle with: a rejection of each class, or a
\* response whose text is absent, empty, JSON of either shape, or not JSON.
ServiceAnswers ==
    { Rejects(Thrown(TRUE, <<"API key", "not", "valid.">>)),
      Rejects(Thrown(TRUE, <<"You", "exceeded", "your", "current", "quota">>)),
      Rejects(Thrown(TRUE, <<"Response", "was", "blocked", "due", "to", "safety">>)),
      Rejects(Thrown(TRUE, <<"Failed", "to", "fetch">>)),
      Rejects(Thrown(FALSE, <<"quota">>)),
      Text(FALSE, <<>>),
      Text(TRUE, <<>>),
      Text(TRUE, JsonObjectText(<<BadDate, Evening, Morning>>)),
      Text(TRUE, JsonObjectText(<<>>)),
      Text(TRUE, <<Tok("{"), Tok("}")>>),
      Text(TRUE, JsonArrayText(<<Evening, Morning>>)),
      Text(TRUE, <<Tok("null")>>),
      Text(TRUE, <<Tok("{"), Tok("shifts"), Tok(":"), Tok("["), RecTok(Morning)>>),
      Text(TRUE, <<Tok("Rate"), Tok("limit"), Tok("reached")>>) }

NotSettled == [kind |-> "none", value |-> <<>>, error |-> NoError]

\* Where a call of extractShiftsFromImage stands: whether the image read has
\* been started, whether generateContent has been called, what the call has
\* settled with and what its caller has put into the error state.
Progress(pc, imageRead, requested, outcome, uiError) ==
    [op |-> "client", pc |-> pc, imageRead |-> imageRead, requested |-> requested,
     outcome |-> outcome, uiError |-> uiError]

InitClient ==
    /\ InitView
    /\ userName = "Alex" /\ isSignedIn = TRUE /\ selectedCalendarId = "work"
    /\ fnIn \in {[op |-> "extract", apiKey |-> k, readOk |-> r, answer |-> a, engine |-> e] :
                    k \in ApiKeys, r \in BOOLEAN, a \in ServiceAnswers, e \in Engines}
    /\ fnOut = NoFn

\* extractShiftsFromImage up to its first await: the credential check, and
\* fileToBase64 starting the FileReader.
ClientCall ==
    /\ fnIn.op = "extract"
    /\ fnOut.op = "none"
    /\ fnOut' = IF ~Truthy(fnIn.apiKey)
                THEN Progress("settled", FALSE, FALSE,
                              Threw(Thrown(TRUE, MsgNotConfigured)), Undefined)
                ELSE Progress("reading", TRUE, FALSE, NotSettled, Undefined)
    /\ UNCHANGED <<appVars, fnIn>>

\* The FileReader finishes: generateContent is called, or the rejection of
\* fileToBase64 (a ProgressEvent, awaited outside the try block) ends the call.
ClientImageRead ==
    /\ fnOut.op = "client"
    /\ fnOut.pc = "reading"
    /\ fnOut' = IF fnIn.readOk
                THEN Progress("requesting", TRUE, TRUE, NotSettled, Undefined)
                ELSE Progress("settled", TRUE, FALSE, Threw(Thrown(FALSE, Undefined)),
                              Undefined)
    /\ UNCHANGED <<appVars, fnIn>>

\* generateContent settles: the rest of the try block, or the catch block.
ClientResponds ==
    /\ fnOut.op = "client"
    /\ fnOut.pc = "requesting"
    /\ fnOut' = [fnOut EXCEPT
                    !.pc = "settled",
                    !.outcome = IF fnIn.answer.kind = "reject"
                                THEN Threw(ClassifyError(fnIn.answer.error))
                                ELSE TextOutcome(fnIn.answer, fnIn.engine)]
    /\ UNCHANGED <<appVars, fnIn>>

\* e.message || "An unknown error occurred during analysis."
AnalysisErrorText(caught) ==
    IF Truthy(caught.message) THEN caught.message ELSE MsgUnknownAnalysis

\* handleExtractShifts after the call: its catch block, or the message for an
\* empty list (a non-empty list goes on to checkForConflicts).
ClientCallerShows ==
    /\ fnOut.op = "client"
    /\ fnOut.pc = "settled"
    /\ fnOut' = [fnOut EXCEPT
                    !.pc = "shown",
                    !.uiError = IF fnOut.outcome.kind = "throw"
                                THEN AnalysisErrorText(fnOut.outcome.error)
                                ELSE IF Len(fnOut.outcome.value) = 0
                                THEN <<ErrNoShiftsFound>>
                                ELSE Undefined]
    /\ UNCHANGED <<appVars, fnIn>>

NextClient ==
    \/ ClientCall
    \/ ClientImageRead
    \/ ClientResponds
    \/ ClientCallerShows

SpecClient == InitClient /\ [][NextClient]_vars

-----------------------------------------------------------------------------
(* The catch blocks of the calendar calls, next to the extraction client:    *)
(* what each handler puts into the error state for the value it catches      *)

\* A value gapi rejects with: e.result.error.message and e.message, either of
\* which may be absent.
GapiError(resultMessage, message) == [resultMessage |-> resultMessage, message |-> message]

GapiErrors ==
    { GapiError(<<"Not", "Found">>, Undefined),
      GapiError(<<"Rate", "Limit", "Exceeded">>, <<"Request", "failed">>),
      GapiError(Undefined, <<"Network", "Error">>),
      GapiError(Undefined, <<>>),
      GapiError(Undefined, Undefined) }

CalendarStages == {"calendarList.list", "events.list", "events.insert"}

\* `Failed to list calendars: ${e.result?.error?.message || e.message || "Unknown error"}`
ListCalendarsErrorText(e) ==
    <<ErrListCalendars>>
        \o (IF Truthy(e.resultMessage) THEN e.resultMessage
            ELSE IF Truthy(e.message) THEN e.message
            ELSE <<"Unknown error">>)

\* `Could not check for calendar conflicts: ${e.result?.error?.message || "Unknown error"}`
ConflictCheckErrorText(e) ==
    <<ErrConflictCheck>>
        \o (IF Truthy(e.resultMessage) THEN e.resultMessage ELSE <<"Unknown error">>)

\* `Failed to add events: ${e.result?.error?.message || "Unknown error"}`
AddErrorText(e) ==
    <<ErrAddFailed>>
        \o (IF Truthy(e.resultMessage) THEN e.resultMessage ELSE <<"Unknown error">>)

InitCalendarFailure ==
    /\ InitView
    /\ userName = "Alex" /\ isSignedIn = TRUE /\ selectedCalendarId = "work"
    /\ fnIn \in {[op |-> "calendarFailure", stage |-> g, caught |-> e] :
                    g \in CalendarStages, e \in GapiErrors}
    /\ fnOut = NoFn

Shown(uiError) == Progress("shown", FALSE, FALSE, NotSettled, uiError)

\* The catch block of listCalendars.
CatchListCalendars ==
    /\ fnIn.op = "calendarFailure"
    /\ fnIn.stage = "calendarList.list"
    /\ fnOut.op = "none"
    /\ fnOut' = Shown(ListCalendarsErrorText(fnIn.caught))
    /\ UNCHANGED <<appVars, fnIn>>

\* The catch block of checkForConflicts.
CatchCheckForConflicts ==
    /\ fnIn.op = "calendarFailure"
    /\ fnIn.stage = "events.list"
    /\ fnOut.op = "none"
    /\ fnOut' = Shown(ConflictCheckErrorText(fnIn.caught))
    /\ UNCHANGED <<appVars, fnIn>>

\* The catch block of handleAddShiftsToCalendar.
CatchAddShifts ==
    /\ fnIn.op = "calendarFailure"
    /\ fnIn.stage = "events.insert"
    /\ fnOut.op = "none"
    /\ fnOut' = Shown(AddErrorText(fnIn.caught))
    /\ UNCHANGED <<appVars, fnIn>>

InitErrors == InitClient \/ InitCalendarFailure

NextErrors ==
    \/ NextClient
    \/ CatchListCalendars
    \/ CatchCheckForConflicts
    \/ CatchAddShifts

SpecErrors == InitErrors /\ [][NextErrors]_vars

-----------------------------------------------------------------------------
(* The Conflict Reconciler on its own: checkForConflicts on every list of up *)
(* to MaxCandidates validated shifts, every calendar selection and every     *)
(* answer of events.list                                                     *)

\* checkForConflicts(shifts) with `calendarId` in its closure, when events.list
\* answers `reply` if it is called.
CheckForConflicts(shifts, calendarId, reply) ==
    IF calendarId = NoCal \/ Len(shifts) = 0 THEN AllSelected(shifts)
    ELSE IF ~reply.ok THEN OnQueryFailure(shifts)
    ELSE Reconciled(shifts, reply.items)

\* A reconciler that returns at once only when no calendar is selected, and
\* for an empty list asks for the events of an empty range.
ConflictQueryUnlessNoCalendar(shifts, calendarId) ==
    IF calendarId = NoCal THEN NoQuery
    ELSE IF Len(shifts) = 0
    THEN [calendarId |-> calendarId, timeMin |-> <<>>, timeMax |-> <<>>]
    ELSE QueryFor(shifts, calendarId)

\* The events.list request checkForConflicts(shifts) sends with `calendarId`
\* in its closure: none when it returns at its first line.
ConflictQuery(shifts, calendarId) ==
    IF calendarId = NoCal \/ Len(shifts) = 0 THEN NoQuery
    ELSE QueryFor(shifts, calendarId)

CandidateLists == UNION {[1..n -> {Morning, Evening}] : n \in 0..MaxCandidates}

InitReconciler ==
    /\ InitView
    /\ userName = "Alex" /\ isSignedIn = TRUE /\ selectedCalendarId = "work"
    /\ fnIn \in {[op |-> "reconcile", shifts |-> l, calendarId |-> c, reply |-> r] :
                    l \in CandidateLists, c \in Cals \cup {NoCal}, r \in EventsResponses}
    /\ fnOut = NoFn

ApplyCheckForConflicts ==
    /\ fnIn.op = "reconcile"
    /\ fnOut.op = "none"
    /\ fnOut' = [op |-> "reconcile",
                 query |-> ConflictQuery(fnIn.shifts, fnIn.calendarId),
                 value |-> CheckForConflicts(fnIn.shifts, fnIn.calendarId, fnIn.reply)]
    /\ UNCHANGED <<appVars, fnIn>>

NextReconciler == ApplyCheckForConflicts

SpecReconciler == InitReconciler /\ [][NextReconciler]_vars

-----------------------------------------------------------------------------
(* The date range of the events.list request: checkForConflicts on every     *)
(* list of up to MaxDated shifts over four dates of two years, in any order  *)

DDec31 == <<"2", "0", "2", "4", "-", "1", "2", "-", "3", "1">>
DSep02 == <<"2", "0", "2", "5", "-", "0", "9", "-", "0", "2">>

QueryDates == {DDec31, D17, D18, DSep02}

DatedLists ==
    UNION {[1..n -> {Raw(d, Monday, T0900, T1530, Asics) : d \in QueryDates}] :
              n \in 0..MaxDated}

InitQuery ==
    /\ InitView
    /\ userName = "Alex" /\ isSignedIn = TRUE /\ selectedCalendarId = "work"
    /\ fnIn \in {[op |-> "query", shifts |-> l, calendarId |-> "work"] : l \in DatedLists}
    /\ fnOut = NoFn

\* checkForConflicts up to its call of events.list.
ApplyConflictQuery ==
    /\ fnIn.op = "query"
    /\ fnOut.op = "none"
    /\ fnOut' = [op |-> "query", query |-> ConflictQuery(fnIn.shifts, fnIn.calendarId)]
    /\ UNCHANGED <<appVars, fnIn>>

NextQuery == ApplyConflictQuery

SpecQuery == InitQuery /\ [][NextQuery]_vars

-----------------------------------------------------------------------------
(* One pass through the pipeline for a known extraction output: the records  *)
(* the extraction service will answer with are fixed at the start, and may   *)
(* repeat and come in any order                                              *)

OutputLists == UNION {[1..n -> {Morning, Evening, BadDate}] : n \in 0..MaxOutput}

InitOrder ==
    /\ InitView
    /\ userName = "Alex" /\ isSignedIn = TRUE /\ selectedCalendarId = "work"
    /\ fnIn \in {[op |-> "response", shifts |-> l] : l \in OutputLists}
    /\ fnOut = NoFn

\* generateContent answers with { shifts: [...] } holding the fixed records.
ExtractRespondsWithOutput ==
    /\ fnIn.op = "response"
    /\ \E reply \in EventsResponses :
           ExtractResponds([kind |-> "json", shifts |-> fnIn.shifts], reply)

NextOrder ==
    \/ Continue
    \/ handleFileSelected
    \/ ExtractClick
    \/ ExtractRespondsWithOutput
    \/ EventsListResponds
    \/ \E index \in DOMAIN extractedShifts : handleToggleShift(index)
    \/ AddClick
    \/ \E k \in DOMAIN requests : InsertSucceeds(k)
    \/ \E k \in DOMAIN requests : InsertFails(k)

SpecOrder == InitOrder /\ [][NextOrder]_vars

-----------------------------------------------------------------------------
(* The REVIEW, ADDING and DONE steps with up to MaxBatches insert batches:   *)
(* the behaviours start in REVIEW with a reconciled list on display, so that *)
(* a batch can fail and the Add button be pressed again                      *)

RetryLists == {AllSelected(<<Morning>>), AllSelected(<<Evening, Morning>>)}

InitRetry ==
    /\ appStep = "REVIEW"
    /\ extractedShifts \in RetryLists
    /\ selectedCalendarId = "work"
    /\ userName = "Alex"
    /\ isSignedIn = TRUE
    /\ imageFile = TRUE
    /\ isLoading = FALSE
    /\ error = Null
    /\ calendars = Cals
    /\ extractPc = "idle"
    /\ extractCal = "work"
    /\ initialShifts = <<>>
    /\ addPc = "idle"
    /\ requests = <<>>
    /\ addCalls = 0
    /\ calendarStore = EmptyBag
    /\ eventsQuery = NoQuery
    /\ eventsReply = NoReply
    /\ fnIn = NoFn
    /\ fnOut = NoFn

\* The Add to Calendar button of the REVIEW card, pressed up to MaxBatches times.
AddClickAgain ==
    /\ appStep = "REVIEW"
    /\ ~AddDisabled
    /\ AddShiftsToCalendar(MaxBatches)

NextRetry ==
    \/ \E index \in DOMAIN extractedShifts : handleToggleShift(index)
    \/ AddClickAgain
    \/ \E k \in DOMAIN requests : InsertSucceeds(k)
    \/ \E k \in DOMAIN requests : InsertFails(k)
    \/ handleStartOver

SpecRetry == InitRetry /\ [][NextRetry]_vars

-----------------------------------------------------------------------------
(* One pass through the pipeline for shifts that do not end later in the day *)
(* than they start: a night shift from 22:00 to 09:00 and a shift from 09:00 *)
(* to 09:00, next to an ordinary one                                         *)

Overnight == Raw(D18, Monday, T2200, T0900, Asics)
ZeroLength == Raw(D18, Monday, T0900, T0900, Originals)

NightLists == UNION {[1..n -> {Morning, Overnight, ZeroLength}] : n \in {1, 2}}

InitNight ==
    /\ InitView
    /\ userName = "Alex" /\ isSignedIn = TRUE /\ selectedCalendarId = "work"
    /\ fnIn \in {[op |-> "response", shifts |-> l] : l \in NightLists}
    /\ fnOut = NoFn

SpecNight == InitNight /\ [][NextOrder]_vars

-----------------------------------------------------------------------------
(* The wizard for a user who signs in during the session, so that gapi holds *)
(* an access token and handleSignOut takes its first branch: it asks Google  *)
(* to revoke the token and changes the state only in the callback of that    *)
(* request, at whatever step the wizard has reached by then                  *)

RevokeInFlight == [op |-> "revoke"]

\* The Sign out link with a token held: handleSignOut up to oauth2.revoke.
handleSignOutWithToken ==
    /\ appStep = "CONFIG"
    /\ isSignedIn
    /\ fnIn = NoFn
    /\ fnIn' = RevokeInFlight
    /\ UNCHANGED <<appVars, fnOut>>

\* The callback handleSignOut passes to oauth2.revoke.
RevokeCallback ==
    /\ fnIn = RevokeInFlight
    /\ fnIn' = NoFn
    /\ isSignedIn' = FALSE
    /\ appStep' = "CONFIG"
    /\ selectedCalendarId' = NoCal
    /\ calendars' = {}
    /\ UNCHANGED <<userName, imageFile, extractedShifts, isLoading, error, extractPc,
                   extractCal, initialShifts, addPc, requests, addCalls, calendarStore,
                   eventsQuery, eventsReply, fnOut>>

InitRevoke ==
    /\ InitView
    /\ userName = "" /\ isSignedIn = FALSE /\ selectedCalendarId = NoCal
    /\ fnIn = NoFn
    /\ fnOut = NoFn

NextRevoke ==
    \/ SetUserName("Alex")
    \/ SignIn
    \/ ListCalendars(TRUE)
    \/ handleSignOutWithToken
    \/ RevokeCallback
    \/ Continue
    \/ handleFileSelected
    \/ ExtractClick
    \/ ExtractResponds([kind |-> "json", shifts |-> <<Morning>>], [ok |-> TRUE, items |-> <<>>])
    \/ EventsListResponds
    \/ \E index \in DOMAIN extractedShifts : handleToggleShift(index)
    \/ AddClick
    \/ \E k \in DOMAIN requests : InsertSucceeds(k)
    \/ \E k \in DOMAIN requests : InsertFails(k)
    \/ handleStartOver

SpecRevoke == InitRevoke /\ [][NextRevoke]_vars

-----------------------------------------------------------------------------
(* Properties of the Calendar Writer's join (Spec) *)

\* C1: the reported outcome of an insert batch is all-or-nothing.  A step takes
\* appStep to DONE only if every insert request of the batch has succeeded, and
\* a step in which a request of the awaited batch fails takes appStep to REVIEW
\* with a non-null error, however many other requests of the batch succeeded.
C1_AllOrNothing ==
    [][LET batch == BatchOf(requests', addCalls') IN
       /\ (appStep # "DONE" /\ appStep' = "DONE")
              => \A k \in batch : requests'[k].status = "ok"
       /\ (/\ addPc = "awaiting"
           /\ \E k \in batch : requests'[k].status = "failed")
              => (appStep' = "REVIEW" /\ error' # Null /\ addPc' = "idle")]_vars

\* C1 witness: a batch has been reported as failed although one of its
\* requests succeeded.
C1_Witness ==
    /\ appStep = "REVIEW"
    /\ error = ErrAddFailed
    /\ \E k \in BatchOf(requests, addCalls) : requests[k].status = "ok"
    /\ \E k \in BatchOf(requests, addCalls) : requests[k].status = "failed"

\* C2 as stated: in no reachable state is appStep REVIEW or DONE while an
\* insert request of the batch just reported is still in flight.
C2_Original ==
    (addCalls > 0 /\ addPc = "idle" /\ appStep \in {"REVIEW", "DONE"})
        => \A k \in BatchOf(requests, addCalls) : requests[k].status # "pending"

\* C2 as the code has it: the write step ends by setting DONE only when every
\* request of the batch has succeeded, and otherwise ends by setting REVIEW at
\* the first request that fails, whether or not other requests of the batch
\* are still in flight; until then the handler keeps waiting.
C2_LeavesAddingOnSuccessOrFirstFailure ==
    [][LET batch == BatchOf(requests', addCalls') IN
       /\ (addPc = "awaiting" /\ addPc' # "awaiting")
              => \/ /\ appStep' = "DONE"
                    /\ \A k \in batch : requests'[k].status = "ok"
                 \/ /\ appStep' = "REVIEW"
                    /\ \E k \in batch : requests'[k].status = "failed"
       /\ (addPc = "awaiting" /\ addPc' = "awaiting")
              => /\ \A k \in batch : requests'[k].status # "failed"
                 /\ \E k \in batch : requests'[k].status = "pending"]_vars

\* C2 witness: the batch has been reported as failed while one of its requests
\* is still in flight.
C2_Witness ==
    /\ appStep = "REVIEW"
    /\ addPc = "idle"
    /\ \E k \in BatchOf(requests, addCalls) : requests[k].status = "failed"
    /\ \E k \in BatchOf(requests, addCalls) : requests[k].status = "pending"

\* C3: no rollback on partial failure.  No step removes an event from the
\* calendar; when a batch is reported as failed, the event of every request of
\* the batch that succeeded is in the calendar; and no step in which a request
\* settles changes the shift list, so nothing records which shifts were inserted.
C3_NoRollback ==
    [][/\ calendarStore \sqsubseteq calendarStore'
       /\ (addPc = "awaiting" /\ addPc' = "idle" /\ appStep' = "REVIEW")
              => \A k \in BatchOf(requests', addCalls') :
                     requests'[k].status = "ok"
                         => BagIn(Created(requests'[k]), calendarStore')
       /\ (requests' # requests /\ addCalls' = addCalls)
              => extractedShifts' = extractedShifts]_vars

\* C3 witness: a batch reported as failed whose succeeded request has left its
\* event in the calendar.
C3_Witness ==
    /\ appStep = "REVIEW"
    /\ error = ErrAddFailed
    /\ addPc = "idle"
    /\ \E k \in BatchOf(requests, addCalls) :
           /\ requests[k].status = "ok"
           /\ BagIn(Created(requests[k]), calendarStore)
    /\ \A i \in DOMAIN extractedShifts : extractedShifts[i].selected

-----------------------------------------------------------------------------
(* Properties of the validation filter (SpecFilter) *)

\* C4: the filter returns exactly the parsed records, in their order, that
\* have non-empty date, startTime, endTime, location and dayOfWeek, a date made
\* of 4, 2 and 2 digits separated by "-" and times made of 2 and 2 digits
\* separated by ":"; every other record is excluded and no such record is.
C4_FilterKeepsExactlyTheValid ==
    fnOut.op = "filter" =>
        LET digits == {"0", "1", "2", "3", "4", "5", "6", "7", "8", "9"}
            present(v) == v # Undefined /\ v # <<>>
            datelike(v) ==
                /\ Len(v) = 10
                /\ v[5] = "-" /\ v[8] = "-"
                /\ \A i \in (1..10) \ {5, 8} : v[i] \in digits
            timelike(v) ==
                /\ Len(v) = 5
                /\ v[3] = ":"
                /\ \A i \in (1..5) \ {3} : v[i] \in digits
            valid(r) ==
                /\ present(r.date) /\ present(r.startTime) /\ present(r.endTime)
                /\ present(r.location) /\ present(r.dayOfWeek)
                /\ datelike(r.date) /\ timelike(r.startTime) /\ timelike(r.endTime)
            in == fnIn.arg
            out == fnOut.value
            good == {i \in DOMAIN in : valid(in[i])}
        IN  /\ Len(out) = Cardinality(good)
            /\ \A i \in good : out[Cardinality({j \in good : j <= i})] = in[i]

\* C4 witness: of two records that carry all five fields, the first, whose
\* time is not of the form HH:MM, is excluded and the second is returned.
C4_Witness ==
    /\ fnOut.op = "filter"
    /\ Len(fnIn.arg) = 2
    /\ HasRequiredFields(fnIn.arg[1])
    /\ fnIn.arg[1].date = D18
    /\ fnOut.value = <<fnIn.arg[2]>>

-----------------------------------------------------------------------------
(* Properties of the Conflict Reconciler (Spec) *)

\* C5: when events.list has answered, a candidate shift is marked conflicting
\* if and only if some existing event has candidateStart < eventEnd and
\* candidateEnd > eventStart; a candidate that only touches events at its
\* boundaries is not marked.
C5_ConflictIffOverlap ==
    [][(extractPc = "checking" /\ extractPc' = "idle") =>
          /\ Len(extractedShifts') = Len(initialShifts)
          /\ \A i \in DOMAIN initialShifts :
                 LET candidateStart ==
                         DateTimeValue(DateT(initialShifts[i].date, initialShifts[i].startTime))
                     candidateEnd ==
                         DateTimeValue(DateT(initialShifts[i].date, initialShifts[i].endTime))
                     existing == IF eventsReply.ok THEN eventsReply.items ELSE <<>>
                 IN  (extractedShifts'[i].isConflicting = "true")
                         <=> \E k \in DOMAIN existing :
                                 /\ candidateStart < DateTimeValue(existing[k].end.dateTime)
                                 /\ candidateEnd > DateTimeValue(existing[k].start.dateTime)]_vars

\* C5 witness: the reviewed list holds a shift marked conflicting and a shift
\* that starts at 15:30, where one event ends, and ends at 22:00, where another
\* begins, and is marked not conflicting.
C5_Witness ==
    /\ appStep = "REVIEW"
    /\ \E i \in DOMAIN extractedShifts : extractedShifts[i].isConflicting = "true"
    /\ \E i \in DOMAIN extractedShifts :
           /\ extractedShifts[i].startTime = T1530
           /\ extractedShifts[i].endTime = T2200
           /\ extractedShifts[i].isConflicting = "false"

\* C6: when events.list fails, the extraction still ends in REVIEW: the stored
\* shifts are the candidates with their extracted fields unmodified, each
\* selected and none marked conflicting, and the advisory error is set.
C6_QueryFailureDegrades ==
    [][(extractPc = "checking" /\ ~eventsReply.ok /\ extractPc' = "idle") =>
          /\ appStep' = "REVIEW"
          /\ error' = ErrConflictCheck
          /\ error' # Null
          /\ ~isLoading'
          /\ Len(extractedShifts') = Len(initialShifts)
          /\ \A i \in DOMAIN initialShifts :
                 /\ \A f \in {"date", "dayOfWeek", "startTime", "endTime", "location"} :
                        extractedShifts'[i][f] = initialShifts[i][f]
                 /\ extractedShifts'[i].selected = TRUE
                 /\ extractedShifts'[i].isConflicting # "true"]_vars

\* C6 witness: REVIEW reached with the advisory error and both extracted shifts
\* selected and unmarked.
C6_Witness ==
    /\ appStep = "REVIEW"
    /\ error = ErrConflictCheck
    /\ Len(extractedShifts) = 2
    /\ \A i \in DOMAIN extractedShifts :
           extractedShifts[i].selected /\ extractedShifts[i].isConflicting = "absent"

-----------------------------------------------------------------------------
(* Properties of the Selection State (Spec) *)

\* C7: a toggle (a step of the REVIEW card that changes the shift list while no
\* handler moves) flips the selected flag of one record and changes nothing
\* else: the length, the order, the other fields of that record and every other
\* record stay as they were.
C7_ToggleFlipsOnlySelected ==
    [][(/\ appStep = "REVIEW" /\ appStep' = "REVIEW"
        /\ extractPc' = extractPc /\ addPc' = addPc
        /\ extractedShifts' # extractedShifts) =>
          /\ Len(extractedShifts') = Len(extractedShifts)
          /\ \E i \in DOMAIN extractedShifts :
                 /\ extractedShifts'[i].selected = ~extractedShifts[i].selected
                 /\ \A f \in {"date", "dayOfWeek", "startTime", "endTime", "location",
                              "isConflicting"} :
                        extractedShifts'[i][f] = extractedShifts[i][f]
                 /\ \A j \in DOMAIN extractedShifts \ {i} :
                        extractedShifts'[j] = extractedShifts[j]]_vars

\* C7 witness: a shift marked conflicting has been deselected and is still
\* marked conflicting, next to a shift that is still selected.
C7_Witness ==
    /\ appStep = "REVIEW"
    /\ Len(extractedShifts) = 2
    /\ \E i \in DOMAIN extractedShifts :
           ~extractedShifts[i].selected /\ extractedShifts[i].isConflicting = "true"
    /\ \E i \in DOMAIN extractedShifts :
           extractedShifts[i].selected /\ extractedShifts[i].isConflicting = "false"

\* C10: in every REVIEW state the Add to Calendar button is enabled if and only
\* if at least one shift has selected = true.
C10_AddEnabledIffSomeSelected ==
    appStep = "REVIEW" =>
        (~AddDisabled <=> \E i \in DOMAIN extractedShifts : extractedShifts[i].selected = TRUE)

\* C10 witness: a REVIEW state with shifts, none of them selected, and the
\* button disabled.
C10_Witness ==
    /\ appStep = "REVIEW"
    /\ Len(extractedShifts) = 2
    /\ \A i \in DOMAIN extractedShifts : ~extractedShifts[i].selected
    /\ AddDisabled

-----------------------------------------------------------------------------
(* Properties of the requests the Calendar Writer issues *)

C9_Original ==
    [][(/\ addCalls' = addCalls + 1
        /\ \A i \in DOMAIN extractedShifts : ~extractedShifts[i].selected) =>
          /\ error' = ErrNothingSelected
          /\ requests' = requests
          /\ appStep' = "REVIEW"]_vars

\* C9 as the code has it (SpecWriter): a run of the Calendar Writer with an
\* empty selected sublist issues no request and leaves appStep unchanged; it
\* sets the nothing-selected error if the shift list is non-empty and a
\* calendar id is selected, and otherwise returns without setting an error.
C9_NothingSelected ==
    [][(/\ addCalls' = addCalls + 1
        /\ \A i \in DOMAIN extractedShifts : ~extractedShifts[i].selected) =>
          /\ requests' = requests
          /\ appStep' = appStep
          /\ addPc' = "idle"
          /\ error' = IF Len(extractedShifts) > 0 /\ selectedCalendarId # NoCal
                      THEN ErrNothingSelected
                      ELSE error]_vars

\* C9 witness: the Calendar Writer has run on a non-empty list with nothing
\* selected and has set the nothing-selected error without issuing a request.
C9_Witness ==
    /\ addCalls = 1
    /\ appStep = "REVIEW"
    /\ error = ErrNothingSelected
    /\ requests = <<>>
    /\ Len(extractedShifts) > 0
    /\ \A i \in DOMAIN extractedShifts : ~extractedShifts[i].selected

-----------------------------------------------------------------------------
(* Properties of the Shift Extraction Client (SpecClient, SpecErrors) *)

\* C11: when generateContent answers with an absent or an empty text,
\* extractShiftsFromImage returns the empty list and throws nothing.
C11_EmptyTextGivesEmptyList ==
    (/\ fnOut.op = "client"
     /\ fnOut.pc \in {"settled", "shown"}
     /\ fnOut.requested
     /\ fnIn.answer.kind = "text"
     /\ (~fnIn.answer.present \/ fnIn.answer.tokens = <<>>))
        => (fnOut.outcome.kind = "return" /\ fnOut.outcome.value = <<>>)

\* C11 witness: a call whose response had no text has returned the empty list.
C11_Witness ==
    /\ fnOut.op = "client"
    /\ fnOut.pc = "settled"
    /\ fnOut.requested
    /\ fnIn.answer.kind = "text"
    /\ ~fnIn.answer.present
    /\ fnOut.outcome = Returned(<<>>)

\* C12 as stated: when the response text is a bare JSON array of valid shift
\* records, extractShiftsFromImage returns those records.
C12_Original ==
    (/\ fnOut.op = "client"
     /\ fnOut.pc \in {"settled", "shown"}
     /\ fnOut.requested
     /\ fnIn.answer.kind = "text"
     /\ fnIn.answer.present
     /\ IsArrayText(fnIn.answer.tokens)
     /\ \A i \in DOMAIN ArrayItems(fnIn.answer.tokens) :
            KeepShift(ArrayItems(fnIn.answer.tokens)[i]))
        => (/\ fnOut.outcome.kind = "return"
            /\ fnOut.outcome.value = ArrayItems(fnIn.answer.tokens))

\* C13 as stated: with an empty or a placeholder credential the call throws
\* the configuration error, and neither starts reading the image nor calls
\* generateContent.
C13_Original ==
    (/\ fnOut.op = "client"
     /\ \/ fnIn.apiKey = Undefined
        \/ fnIn.apiKey = <<>>
        \/ (Len(fnIn.apiKey) >= 2 /\ SubSeq(fnIn.apiKey, 1, 2) = <<"%", "%">>))
        => (/\ ~fnOut.imageRead
            /\ ~fnOut.requested
            /\ fnOut.outcome = Threw(Thrown(TRUE, MsgNotConfigured)))

\* C14 as stated: each class of extraction failure is given the message of
\* its class, and the six messages differ from one another: a missing
\* credential, a rejection for authentication, for quota, for blocked content,
\* a response text that is not JSON, and any other rejection.
C14_Original ==
    /\ Cardinality({MsgNotConfigured, MsgInvalidApiKey, MsgQuotaExceeded, MsgBlocked,
                    MsgInvalidJson, MsgAnalyzeFailed}) = 6
    /\ (fnOut.op = "client" /\ fnOut.pc \in {"settled", "shown"}) =>
          LET a == fnIn.answer
              message == fnOut.outcome.error.message
          IN  /\ ~Truthy(fnIn.apiKey) => message = MsgNotConfigured
              /\ (fnOut.requested /\ a.kind = "reject" /\ a.error.isError) =>
                    /\ Includes(a.error.message, "API key") => message = MsgInvalidApiKey
                    /\ Includes(a.error.message, "quota") => message = MsgQuotaExceeded
                    /\ Includes(a.error.message, "blocked") => message = MsgBlocked
                    /\ Includes(a.error.message, "fetch") => message = MsgAnalyzeFailed
              /\ (/\ fnOut.requested /\ a.kind = "text" /\ a.present
                  /\ Len(a.tokens) > 0 /\ ~JsonParse(a.tokens).ok)
                    => message = MsgInvalidJson

\* C15 as stated (SpecErrors): whatever external step fails, the error state
\* receives one of the program's fixed messages and never a raw error text.
C15_Original ==
    (fnOut.op = "client" /\ fnOut.pc = "shown" /\ fnOut.uiError # Undefined)
        => fnOut.uiError \in
               { MsgNotConfigured, MsgInvalidApiKey, MsgQuotaExceeded, MsgBlocked,
                 MsgInvalidJson, MsgAnalyzeFailed, MsgUnknownAnalysis,
                 <<ErrNoShiftsFound>>,
                 <<ErrListCalendars, "Unknown error">>,
                 <<ErrConflictCheck, "Unknown error">>,
                 <<ErrAddFailed, "Unknown error">> }

\* C15 as the code has it (SpecErrors): every failure is caught by its handler
\* and shown as a message.  A failure of the image read, of the extraction
\* request or of the parsing is shown as one of the seven fixed messages of
\* the extraction.  A failure of a calendar call is shown as the fixed prefix
\* of its stage followed by the error text of the service when it has one,
\* and otherwise by the message of the caught value (calendar list only) or
\* by "Unknown error".
C15_CaughtAndConverted ==
    (fnOut.op = "client" /\ fnOut.pc = "shown") =>
        IF fnIn.op = "extract"
        THEN /\ fnOut.outcome.kind = "throw" =>
                    fnOut.uiError \in
                        { MsgNotConfigured, MsgInvalidApiKey, MsgQuotaExceeded, MsgBlocked,
                          MsgInvalidJson, MsgAnalyzeFailed, MsgUnknownAnalysis }
             /\ fnOut.outcome.kind = "return" =>
                    fnOut.uiError \in {<<ErrNoShiftsFound>>, Undefined}
        ELSE LET e == fnIn.caught
                 detail == Tail(fnOut.uiError)
                 fromService == e.resultMessage # Undefined /\ e.resultMessage # <<>>
             IN  /\ Len(fnOut.uiError) >= 1
                 /\ fnOut.uiError[1] =
                        (CASE fnIn.stage = "calendarList.list" -> ErrListCalendars
                           [] fnIn.stage = "events.list" -> ErrConflictCheck
                           [] fnIn.stage = "events.insert" -> ErrAddFailed)
                 /\ fromService => detail = e.resultMessage
                 /\ ~fromService =>
                        detail \in (CASE fnIn.stage = "calendarList.list" ->
                                             {e.message, <<"Unknown error">>} \ {Undefined, <<>>}
                                      [] fnIn.stage = "events.list" -> {<<"Unknown error">>}
                                      [] fnIn.stage = "events.insert" -> {<<"Unknown error">>})

\* C15 witness: a failed insert has been shown as the prefix of its stage
\* followed by the error text the calendar service sent.
C15_Witness ==
    /\ fnIn.op = "calendarFailure"
    /\ fnIn.stage = "events.insert"
    /\ fnOut.op = "client"
    /\ fnOut.pc = "shown"
    /\ fnOut.uiError = <<ErrAddFailed, "Not", "Found">>

-----------------------------------------------------------------------------
(* Properties of the sequencing of the pipeline (Spec) *)

\* C16: nothing is retried.  An extraction request is issued only by a click
\* on Extract, and one click issues one; an events-list request is issued only
\* by the extraction of that click returning, at most once; insert requests
\* are issued only by a run of the add handler, at most one per selected
\* shift; and a step in which a request settles, failed or not, leaves no new
\* request in flight.
C16_NoAutomaticRetry ==
    [][/\ (extractPc # "extracting" /\ extractPc' = "extracting")
              => (extractPc = "idle" /\ appStep = "UPLOAD" /\ ~isLoading /\ isLoading')
       /\ (extractPc # "checking" /\ extractPc' = "checking")
              => (extractPc = "extracting" /\ eventsQuery = NoQuery)
       /\ (extractPc = "extracting" /\ extractPc' # "extracting")
              => extractPc' \in {"checking", "idle"}
       /\ (extractPc = "checking" /\ extractPc' # "checking")
              => (extractPc' = "idle" /\ eventsQuery' = NoQuery)
       /\ (extractPc = "checking" /\ extractPc' = "checking")
              => eventsQuery' = eventsQuery
       /\ addCalls' = addCalls + 1
              => Cardinality({k \in DOMAIN requests' : requests'[k].batch = addCalls'})
                     <= Cardinality({i \in DOMAIN extractedShifts : extractedShifts[i].selected})
       /\ addCalls' = addCalls
              => /\ Len(requests') = Len(requests)
                 /\ \A k \in DOMAIN requests :
                        requests'[k].status = "pending" => requests'[k] = requests[k]]_vars

\* C16 witness: both inserts of a batch have failed, the failure has been
\* reported, and no request is in flight.
C16_Witness ==
    /\ appStep = "REVIEW"
    /\ error = ErrAddFailed
    /\ addPc = "idle"
    /\ extractPc = "idle"
    /\ Len(requests) = 2
    /\ \A k \in DOMAIN requests : requests[k].status = "failed"

\* C20 as stated: each stage is gated on the completion of the one before.  appStep
\* becomes REVIEW either when the extract handler ends, after the extraction
\* has returned and the conflict check has returned (answered, or skipped for
\* lack of a calendar), or when a batch is reported as failed; it becomes
\* ADDING only from REVIEW by a run of the add handler; and it becomes DONE
\* only from ADDING when every insert of the awaited batch has succeeded.
C20_Original ==
    [][/\ (appStep # "REVIEW" /\ appStep' = "REVIEW")
              => \/ /\ extractPc' = "idle"
                    /\ \/ extractPc = "checking"
                       \/ extractPc = "extracting" /\ extractCal = NoCal
                 \/ /\ appStep = "ADDING"
                    /\ addPc = "awaiting" /\ addPc' = "idle"
       /\ (appStep # "ADDING" /\ appStep' = "ADDING")
              => (appStep = "REVIEW" /\ addCalls' = addCalls + 1)
       /\ (appStep # "DONE" /\ appStep' = "DONE")
              => /\ appStep = "ADDING"
                 /\ addPc = "awaiting"
                 /\ \A k \in BatchOf(requests', addCalls') : requests'[k].status = "ok"]_vars

-----------------------------------------------------------------------------
(* Properties of checkForConflicts as a function (SpecReconciler) *)

\* C17: on every return path of the Conflict Reconciler (no calendar selected,
\* zero existing events, overlap computed, query failed) the returned list has
\* the length of the input, every record has selected = true whatever its
\* conflict status, and date, dayOfWeek, startTime, endTime and location of
\* each record are those of the input record at the same position.
C17_AllSelectedFieldsKept ==
    fnOut.op = "reconcile" =>
        /\ Len(fnOut.value) = Len(fnIn.shifts)
        /\ \A i \in DOMAIN fnIn.shifts :
               /\ fnOut.value[i].selected = TRUE
               /\ \A f \in {"date", "dayOfWeek", "startTime", "endTime", "location"} :
                      fnOut.value[i][f] = fnIn.shifts[i][f]

\* C17 witness: the overlap was computed, and a shift found conflicting has
\* been returned selected next to one found not conflicting.
C17_Witness ==
    /\ fnOut.op = "reconcile"
    /\ fnIn.calendarId # NoCal
    /\ fnIn.reply.ok
    /\ \E i \in DOMAIN fnOut.value :
           fnOut.value[i].isConflicting = "true" /\ fnOut.value[i].selected
    /\ \E i \in DOMAIN fnOut.value :
           fnOut.value[i].isConflicting = "false" /\ fnOut.value[i].selected

\* C18: when events.list answers with zero events, every candidate is returned
\* selected and not conflicting (its isConflicting absent or false).
C18_NoEventsNoConflicts ==
    (/\ fnOut.op = "reconcile"
     /\ fnIn.calendarId # NoCal
     /\ fnIn.reply.ok
     /\ Len(fnIn.reply.items) = 0)
        => /\ Len(fnOut.value) = Len(fnIn.shifts)
           /\ \A i \in DOMAIN fnOut.value :
                  /\ fnOut.value[i].selected = TRUE
                  /\ fnOut.value[i].isConflicting \in {"absent", "false"}

\* C18 witness: two candidates checked against a calendar that answered with
\* no events, both returned selected and unmarked.
C18_Witness ==
    /\ fnOut.op = "reconcile"
    /\ fnIn.calendarId = "work"
    /\ fnIn.reply.ok
    /\ Len(fnIn.reply.items) = 0
    /\ Len(fnOut.value) = 2
    /\ \A i \in DOMAIN fnOut.value :
           fnOut.value[i].selected /\ fnOut.value[i].isConflicting = "absent"

-----------------------------------------------------------------------------
(* Properties of the order of the shifts (SpecOrder) *)

\* C19: the order of the extraction output is kept end to end, with no sort
\* and no deduplication.  The validated list, the reconciled list, the list
\* after any toggles and the sequence of insert requests of a batch each hold
\* the records of the extraction output that pass the validation, repeated
\* records included, in the relative order of the output (the requests: those
\* of the selected shifts).
C19_OrderPreserved ==
    fnIn.op = "response" =>
        LET output == fnIn.shifts
            kept == {i \in DOMAIN output : KeepShift(output[i])}
            position(i) == Cardinality({j \in kept : j <= i})
            fields == {"date", "dayOfWeek", "startTime", "endTime", "location"}
        IN  /\ extractPc = "checking" =>
                   /\ Len(initialShifts) = Cardinality(kept)
                   /\ \A i \in kept : initialShifts[position(i)] = output[i]
            /\ appStep \in {"REVIEW", "ADDING", "DONE"} =>
                   /\ Len(extractedShifts) = Cardinality(kept)
                   /\ \A i \in kept : \A f \in fields :
                          extractedShifts[position(i)][f] = output[i][f]
                   /\ \A k \in DOMAIN requests :
                          /\ requests[k].index \in DOMAIN extractedShifts
                          /\ requests[k].resource = EventOf(extractedShifts[requests[k].index])
                   /\ \A k1, k2 \in DOMAIN requests :
                          (k1 < k2 /\ requests[k1].batch = requests[k2].batch)
                              => requests[k1].index < requests[k2].index

\* C19 witness: the service answered with the evening shift before the
\* morning shift, and the two insert requests are in flight in that order.
C19_Witness ==
    /\ fnIn.op = "response"
    /\ fnIn.shifts = <<Evening, Morning>>
    /\ appStep = "ADDING"
    /\ Len(requests) = 2
    /\ requests[1].resource = EventOf(Evening)
    /\ requests[2].resource = EventOf(Morning)

-----------------------------------------------------------------------------
(* Properties of a batch in flight and of the start-over (SpecRetry) *)

\* C21: once an insert batch is in flight the user cannot abort it.  While
\* appStep is ADDING no step changes the shift list or withdraws a request: the
\* only change to the requests is one pending request settling.  The start-over,
\* the one step that clears the image, is taken from DONE and resets the image,
\* the shift list, the error, the loading flag and the step and nothing else:
\* it leaves every request, in flight or not, as it is.  A
\* request that is accepted creates its event whatever the step is, also after
\* the start-over.
C21_NoAbortOnceInFlight ==
    [][/\ appStep = "ADDING" =>
              /\ extractedShifts' = extractedShifts
              /\ Len(requests') = Len(requests)
              /\ \A k \in DOMAIN requests :
                     \/ requests'[k] = requests[k]
                     \/ /\ requests[k].status = "pending"
                        /\ requests'[k] \in {[requests[k] EXCEPT !.status = "ok"],
                                             [requests[k] EXCEPT !.status = "failed"]}
       /\ (imageFile /\ ~imageFile') =>
              /\ appStep = "DONE"
              /\ appStep' = "CONFIG"
              /\ extractedShifts' = <<>>
              /\ error' = Null
              /\ isLoading' = FALSE
              /\ requests' = requests
              /\ UNCHANGED <<calendarStore, addPc, addCalls, selectedCalendarId,
                             userName, isSignedIn>>
       /\ \A k \in DOMAIN requests :
              (/\ k \in DOMAIN requests'
               /\ requests[k].status = "pending"
               /\ requests'[k] = [requests[k] EXCEPT !.status = "ok"]) =>
                  calendarStore' = calendarStore (+) SetToBag({Created(requests[k])})]_vars

\* C21 witness: the user has started over after a second batch succeeded, and
\* an insert request of the first, failed batch is still in flight.
C21_Witness ==
    /\ appStep = "CONFIG"
    /\ extractedShifts = <<>>
    /\ addCalls = 2
    /\ \E k \in DOMAIN requests : requests[k].status = "pending" /\ requests[k].batch = 1

-----------------------------------------------------------------------------
(* Properties of the life of the shift list (Spec) *)

\* C22 as stated: a successful extraction replaces the whole stored list, and
\* the stored list is empty after the write step completes and after the
\* start-over.
C22_Original ==
    [][/\ (extractPc = "checking" /\ extractPc' = "idle") =>
              extractedShifts' = CheckForConflicts(initialShifts, extractCal, eventsReply)
       /\ (appStep # "DONE" /\ appStep' = "DONE") => extractedShifts' = <<>>
       /\ (appStep = "DONE" /\ appStep' # "DONE") => extractedShifts' = <<>>]_vars

\* C22 as the code has it (Spec): the stored shift list changes in three ways
\* only.  A successful extraction replaces it by the reconciled form of the
\* newly validated records, every one selected, whatever the list held before;
\* a toggle in REVIEW flips one selected flag; the start-over, taken from DONE,
\* empties it.  The end of the write step, successful or not, leaves the list as
\* it is.
C22_FreshPerExtractionKeptUntilStartOver ==
    [][/\ (extractPc = "checking" /\ extractPc' = "idle") =>
              /\ appStep' = "REVIEW"
              /\ extractedShifts' = CheckForConflicts(initialShifts, extractCal, eventsReply)
       /\ (extractPc = "extracting" /\ extractPc' = "idle" /\ appStep' = "REVIEW"
               /\ error' # ErrAnalyze) =>
              /\ Len(extractedShifts') > 0
              /\ \A i \in DOMAIN extractedShifts' :
                     /\ extractedShifts'[i].selected
                     /\ extractedShifts'[i].isConflicting = "absent"
                     /\ KeepShift(extractedShifts'[i])
       /\ extractedShifts' # extractedShifts =>
              \/ extractPc # "idle" /\ extractPc' = "idle" /\ appStep' = "REVIEW"
              \/ /\ appStep = "REVIEW" /\ appStep' = "REVIEW"
                 /\ \E index \in DOMAIN extractedShifts :
                        extractedShifts' = Toggled(extractedShifts, index)
              \/ appStep = "DONE" /\ appStep' = "CONFIG" /\ extractedShifts' = <<>>
       /\ (addPc = "awaiting" /\ addPc' = "idle") => extractedShifts' = extractedShifts
       /\ (imageFile /\ ~imageFile') => extractedShifts' = <<>>]_vars

\* C22 witness: a second extraction has passed validation and is about to
\* replace a stored list of an earlier extraction in which a shift had been
\* deselected.
C22_Witness ==
    /\ extractPc = "checking"
    /\ Len(initialShifts) > 0
    /\ Len(extractedShifts) > 0
    /\ \E i \in DOMAIN extractedShifts : ~extractedShifts[i].selected

-----------------------------------------------------------------------------
(* Properties of the events.list request (SpecReconciler) *)

\* C23: the Conflict Reconciler called with an empty shift list, or with no
\* calendar selected, returns at once without issuing an events.list request:
\* it sends no query and returns its input with every shift selected, whatever
\* the calendar service would have answered.  In every other case it sends one.
C23_NoQueryForEmptyListOrNoCalendar ==
    fnOut.op = "reconcile" =>
        IF Len(fnIn.shifts) = 0 \/ fnIn.calendarId = NoCal
        THEN /\ fnOut.query = NoQuery
             /\ fnOut.value = AllSelected(fnIn.shifts)
        ELSE /\ fnOut.query # NoQuery
             /\ fnOut.query.calendarId = fnIn.calendarId

\* C23 witness: the reconciler has returned the empty list for an empty list,
\* with a calendar selected and a calendar service that holds events.
C23_Witness ==
    /\ fnOut.op = "reconcile"
    /\ fnIn.shifts = <<>>
    /\ fnIn.calendarId = "work"
    /\ fnIn.reply.ok /\ Len(fnIn.reply.items) > 0
    /\ fnOut.query = NoQuery
    /\ fnOut.value = <<>>

-----------------------------------------------------------------------------
(* Properties of the queried date range (SpecQuery) *)

\* C24: for every non-empty shift list the events.list query runs from the
\* smallest date of the list at 00:00:00Z to the largest date of the list at
\* 23:59:59Z, smallest and largest in the order of strings; the bounds are the
\* same for every reordering of the list, and for dates of the form YYYY-MM-DD
\* they are the earliest and the latest day of the list.
C24_QueryBoundsAreMinAndMaxDate ==
    (fnOut.op = "query" /\ Len(fnIn.shifts) > 0) =>
        LET shifts == fnIn.shifts
            dates == {shifts[i].date : i \in DOMAIN shifts}
            day(d) == DateTimeValue(DateT(d, T0900))
            orders == {p \in [DOMAIN shifts -> DOMAIN shifts] :
                          \A i, j \in DOMAIN shifts : i # j => p[i] # p[j]}
        IN  \E minDate, maxDate \in dates :
                /\ \A d \in dates : ~StrLt(d, minDate) /\ ~StrLt(maxDate, d)
                /\ \A d \in dates : day(minDate) <= day(d) /\ day(d) <= day(maxDate)
                /\ fnOut.query.calendarId = fnIn.calendarId
                /\ fnOut.query.timeMin
                       = minDate \o <<"T", "0", "0", ":", "0", "0", ":", "0", "0", "Z">>
                /\ fnOut.query.timeMax
                       = maxDate \o <<"T", "2", "3", ":", "5", "9", ":", "5", "9", "Z">>
                /\ \A p \in orders :
                       ConflictQuery([i \in DOMAIN shifts |-> shifts[p[i]]], fnIn.calendarId)
                           = fnOut.query

\* C24 witness: the query for a list whose first shift is neither the earliest
\* nor the latest, and whose earliest day lies in the year before.
C24_Witness ==
    /\ fnOut.op = "query"
    /\ Len(fnIn.shifts) = 3
    /\ fnIn.shifts[1].date = D18
    /\ fnIn.shifts[2].date = DSep02
    /\ fnIn.shifts[3].date = DDec31
    /\ fnOut.query.timeMin = DDec31 \o <<"T", "0", "0", ":", "0", "0", ":", "0", "0", "Z">>
    /\ fnOut.query.timeMax = DSep02 \o <<"T", "2", "3", ":", "5", "9", ":", "5", "9", "Z">>

-----------------------------------------------------------------------------
(* Properties of the insert payload (SpecWriter) *)

\* C25: the payload of every insert request is built from the shift it is
\* issued for: summary "Work Shift: " + location, description "Shift at " +
\* location, location the shift's location, start.dateTime = date + "T" +
\* startTime + ":00", end.dateTime = date + "T" + endTime + ":00", and start
\* and end carry the same time-zone identifier, that of the runtime.
C25_PayloadBuiltFromShift ==
    \A k \in DOMAIN requests :
        /\ requests[k].index \in DOMAIN extractedShifts
        /\ LET shift == extractedShifts[requests[k].index]
               event == requests[k].resource
           IN  /\ shift.selected
               /\ event.summary = <<"Work Shift: ">> \o shift.location
               /\ event.description = <<"Shift at ">> \o shift.location
               /\ event.location = shift.location
               /\ event.start.dateTime
                      = shift.date \o <<"T">> \o shift.startTime \o <<":", "0", "0">>
               /\ event.end.dateTime
                      = shift.date \o <<"T">> \o shift.endTime \o <<":", "0", "0">>
               /\ event.start.timeZone = event.end.timeZone
               /\ event.start.timeZone = "runtime"

\* C25 witness: the writer has issued the requests for the evening shift at
\* ORIGINALS and the morning shift at ASICS.
C25_Witness ==
    /\ appStep = "ADDING"
    /\ Len(requests) = 2
    /\ requests[1].resource.location = Originals
    /\ requests[1].resource.start.dateTime = D18 \o <<"T">> \o T1530 \o <<":", "0", "0">>
    /\ requests[1].resource.end.dateTime = D18 \o <<"T">> \o T2200 \o <<":", "0", "0">>
    /\ requests[2].resource.location = Asics
    /\ requests[2].resource.start.dateTime = D18 \o <<"T">> \o T0900 \o <<":", "0", "0">>

-----------------------------------------------------------------------------
(* Properties of a second attempt after a failed batch (SpecRetry) *)

\* C26: a failed insert batch leaves the shift list and every selected flag
\* unchanged, and the events its accepted requests created stay in the
\* calendar.  Every run of the writer from REVIEW issues one new insert request
\* for every selected shift, whether or not the calendar already holds the
\* event of that shift from an earlier batch, so that the calendar can hold
\* the event of one shift more than once.
C26_RetryReissuesEverySelectedShift ==
    [][/\ (addPc = "awaiting" /\ addPc' = "idle" /\ appStep' = "REVIEW") =>
              /\ extractedShifts' = extractedShifts
              /\ error' = ErrAddFailed
       /\ \A e \in BagToSet(calendarStore) :
              CopiesIn(e, calendarStore') >= CopiesIn(e, calendarStore)
       /\ (addCalls' = addCalls + 1 /\ appStep' = "ADDING") =>
              \A i \in DOMAIN extractedShifts :
                  Cardinality({k \in DOMAIN requests' :
                                  /\ requests'[k].batch = addCalls'
                                  /\ requests'[k].index = i
                                  /\ requests'[k].status = "pending"
                                  /\ requests'[k].resource = EventOf(extractedShifts[i])})
                      = IF extractedShifts[i].selected THEN 1 ELSE 0]_vars

\* C26 witness: after a first batch that failed with one insert accepted, the
\* second batch has run and the calendar holds the event of one shift twice.
C26_Witness ==
    /\ addCalls = 2
    /\ \E k \in DOMAIN requests :
           /\ requests[k].batch = 2
           /\ requests[k].status = "ok"
           /\ CopiesIn(Created(requests[k]), calendarStore) = 2

-----------------------------------------------------------------------------
(* Properties of the calendar the conflict check and the inserts use (Spec) *)

\* C27 as stated: whenever an insert batch is issued, the calendar id the
\* conflict check that produced the current shift list had captured is the
\* calendar id the insert requests target, also when the user went back to
\* CONFIG and changed the selected calendar while the extraction was in flight.
C27_Original ==
    [][(addCalls' = addCalls + 1 /\ appStep' = "ADDING") =>
          \A k \in BatchOf(requests', addCalls') :
              requests'[k].calendarId = extractCal]_vars

-----------------------------------------------------------------------------
(* Properties of the loading flag and of the steps (SpecRevoke) *)

\* C28 as stated: isLoading is true exactly while an extraction is in flight;
\* it is set when the request starts and cleared on every outcome, and no
\* other action clears it while the request is outstanding.
C28_Original ==
    isLoading <=> extractPc # "idle"

\* C29 as stated: in every reachable state, appStep = REVIEW implies that the
\* stored shift list is non-empty, appStep in {ADDING, DONE} implies that at
\* least one stored shift is selected, and in DONE the number of selected
\* shifts, which the card shows, is the number of insert requests of the batch
\* that led to DONE.
C29_Original ==
    /\ appStep = "REVIEW" => Len(extractedShifts) > 0
    /\ appStep \in {"ADDING", "DONE"} =>
           \E i \in DOMAIN extractedShifts : extractedShifts[i].selected
    /\ appStep = "DONE" =>
           Len(SelectedIndices(extractedShifts)) = Cardinality(BatchOf(requests, addCalls))

-----------------------------------------------------------------------------
(* Properties of the instants built from a shift (SpecNight) *)

\* C30 as stated: every shift that passes the validation yields an interval
\* whose end is strictly after its start, in the overlap test of the Conflict
\* Reconciler and in the payload of the insert request, also when its endTime
\* is not later than its startTime.
C30_Original ==
    /\ \A i \in DOMAIN initialShifts :
           DateTimeValue(DateT(initialShifts[i].date, initialShifts[i].endTime))
               > DateTimeValue(DateT(initialShifts[i].date, initialShifts[i].startTime))
    /\ \A k \in DOMAIN requests :
           DateTimeValue(requests[k].resource.end.dateTime)
               > DateTimeValue(requests[k].resource.start.dateTime)

====
